---------------------------- MODULE Spec2Model ----------------------------
(***************************************************************************)
(* ObjectDrawer command pipeline: CommandParser, CommandDispatcher,        *)
(* ShapeRepository and the geometry helpers of Utility, as a state         *)
(* machine driven by the command console and by script files.              *)
(*                                                                         *)
(* Text is modelled as a sequence of lexical atoms.  An atom is a piece of *)
(* text that the code never looks inside ("create_line", "name", "A"), a   *)
(* single punctuation character ("-", "{", ",", "}", ".", "#"), the prefix *)
(* "coord_", a decimal digit, or the blank " ".  A raw line is a sequence  *)
(* of atoms; a token is a non-empty sequence of non-blank atoms.           *)
(*                                                                         *)
(* Numbers are fixed-point: a coordinate value v is held as                *)
(* v * 10^FracDigits.                                                      *)
(***************************************************************************)
EXTENDS Integers, Sequences, FiniteSets, TLC

VARIABLES
    repo,      \* ShapeRepository::m_items: name -> shape
    scene,     \* QGraphicsScene: the shape items added, the dashed lines added
    files,     \* the file system: path -> sequence of raw lines
    stack,     \* the active handleExecuteFile calls, innermost last
    exhausted, \* nested execute_file ran the process out of stack or descriptors
    last,      \* history: the line dispatched last, its outcome, the state before it
    created    \* history: the names for which a create_* command succeeded

vars == <<repo, scene, files, stack, exhausted, last, created>>

---------------------------------------------------------------------------
(* Bounds of the model *)

\* Longest script file, in lines.
MaxLines == 3

\* Nested execute_file calls the process can hold: each holds a stack frame
\* and an open file.  It exceeds the number of script files, so only a
\* script that is reached again from itself gets that deep.
MaxDepth == 3

\* Dashed connection lines the scene holds at most.
MaxLinks == 1

\* Digits after the decimal point that a coordinate value keeps.
FracDigits == 1

\* Largest coordinate of the grid the shapes specification draws points from.
GridMax == 2

\* Longest text handed to the parser alone, in tokens.
MaxTokens == 4

---------------------------------------------------------------------------
(* Text *)

\* Characters QChar::isSpace and the regular expression \s accept.
WS == {" "}

DigitVal ==
    [d \in {"0", "1", "2", "3", "4", "5", "6", "7", "8", "9"} |->
        CASE d = "0" -> 0 [] d = "1" -> 1 [] d = "2" -> 2 [] d = "3" -> 3
          [] d = "4" -> 4 [] d = "5" -> 5 [] d = "6" -> 6 [] d = "7" -> 7
          [] d = "8" -> 8 [] d = "9" -> 9]

Digits == DOMAIN DigitVal

RECURSIVE Pow10(_)
Pow10(n) == IF n = 0 THEN 1 ELSE 10 * Pow10(n - 1)

Scale == Pow10(FracDigits)

\* QString::trimmed: the text without leading and trailing whitespace.
RECURSIVE trimLeft(_)
trimLeft(s) ==
    IF s # <<>> /\ Head(s) \in WS THEN trimLeft(Tail(s)) ELSE s

RECURSIVE trimRight(_)
trimRight(s) ==
    IF s # <<>> /\ s[Len(s)] \in WS
    THEN trimRight(SubSeq(s, 1, Len(s) - 1))
    ELSE s

trimmed(s) == trimRight(trimLeft(s))

\* QString::split(QRegularExpression("\\s+"), Qt::SkipEmptyParts)
RECURSIVE splitWs(_, _, _)
splitWs(raw, cur, acc) ==
    IF raw = <<>>
    THEN (IF cur = <<>> THEN acc ELSE Append(acc, cur))
    ELSE IF Head(raw) \in WS
         THEN splitWs(Tail(raw), <<>>, IF cur = <<>> THEN acc ELSE Append(acc, cur))
         ELSE splitWs(Tail(raw), Append(cur, Head(raw)), acc)

\* A split that keeps the empty parts between and around the blanks.
RECURSIVE splitAll(_, _, _)
splitAll(raw, cur, acc) ==
    IF raw = <<>> THEN Append(acc, cur)
    ELSE IF Head(raw) \in WS THEN splitAll(Tail(raw), <<>>, Append(acc, cur))
    ELSE splitAll(Tail(raw), Append(cur, Head(raw)), acc)

splitKeepEmpty(raw) == splitAll(raw, <<>>, <<>>)

\* A split that does not break a token between '{' and '}'.
RECURSIVE splitBraces(_, _, _, _)
splitBraces(raw, cur, acc, inside) ==
    IF raw = <<>>
    THEN (IF cur = <<>> THEN acc ELSE Append(acc, cur))
    ELSE IF Head(raw) \in WS /\ ~inside
         THEN splitBraces(Tail(raw), <<>>, IF cur = <<>> THEN acc ELSE Append(acc, cur),
                          inside)
         ELSE splitBraces(Tail(raw), Append(cur, Head(raw)), acc,
                          IF Head(raw) = "{" THEN TRUE
                          ELSE IF Head(raw) = "}" THEN FALSE ELSE inside)

splitOutsideBraces(raw) == splitBraces(raw, <<>>, <<>>, FALSE)

split(raw) == splitWs(raw, <<>>, <<>>)

\* QString::startsWith("-") and QString::startsWith("-coord_")
startsWithDash(t) == Len(t) >= 1 /\ t[1] = "-"

\* A prefix test that finds no coordinate flag.
startsWithDashCoordNever(t) == FALSE

startsWithDashCoord(t) == Len(t) >= 2 /\ t[1] = "-" /\ t[2] = "coord_"

\* QString::mid(1): the text after its first character.
mid1(t) == Tail(t)

\* An insertion that leaves an older binding of the key in place.
insertIfAbsent(m, key, value) ==
    [k \in DOMAIN m \cup {key} |-> IF k \in DOMAIN m THEN m[k] ELSE value]

\* QMap::insert: the map with key bound to value, replacing an older binding.
EmptyMap == [k \in {} |-> <<>>]

insert(m, key, value) ==
    [k \in DOMAIN m \cup {key} |-> IF k = key THEN value ELSE m[k]]

contains(m, key) == key \in DOMAIN m

\* A message: its fixed text and the values formatted into it.
Msg(text, args) == [text |-> text, args |-> args]

NoMsg == Msg("", <<>>)

---------------------------------------------------------------------------
(* CommandParser *)

Command(name, args, coords) == [name |-> name, args |-> args, coords |-> coords]

EmptyCommand == Command(<<>>, EmptyMap, EmptyMap)

\* Index after the whitespace starting at i.
RECURSIVE skipWs(_, _)
skipWs(t, i) == IF i <= Len(t) /\ t[i] \in WS THEN skipWs(t, i + 1) ELSE i

\* Index after the digits starting at i.
RECURSIVE skipDigits(_, _)
skipDigits(t, i) == IF i <= Len(t) /\ t[i] \in Digits THEN skipDigits(t, i + 1) ELSE i

\* The value of the digits t[i..j-1] read as a decimal integer.
RECURSIVE digitsValue(_, _, _)
digitsValue(t, i, j) ==
    IF i >= j THEN 0 ELSE digitsValue(t, i, j - 1) * 10 + DigitVal[t[j - 1]]

\* The first FracDigits digits of t[i..j-1] read as a decimal fraction,
\* in units of 1/Scale.
RECURSIVE fracValue(_, _, _, _)
fracValue(t, i, j, k) ==
    IF k = 0 THEN 0
    ELSE (IF i < j THEN DigitVal[t[i]] ELSE 0) * Pow10(k - 1)
         + fracValue(t, i + 1, j, k - 1)

\* Index after the optional sign of the group (-?\d+(?:\.\d+)?) at i.
signEnd(t, i) == IF i <= Len(t) /\ t[i] = "-" THEN i + 1 ELSE i

\* Index after the optional part (?:\.\d+)? at e.
fracEnd(t, e) ==
    IF e <= Len(t) /\ t[e] = "." /\ skipDigits(t, e + 1) > e + 1
    THEN skipDigits(t, e + 1)
    ELSE e

\* QString::toDouble of the group: sign at i (s > i when present), integer
\* digits t[s..e-1], fraction digits t[e+1..end-1].
toDouble(t, i, s, e, end) ==
    LET mag == digitsValue(t, s, e) * Scale + fracValue(t, e + 1, end, FracDigits)
    IN  IF s > i THEN 0 - mag ELSE mag

numberMatch(t, i, s, e, end) ==
    [ok |-> e > s, next |-> end, val |-> toDouble(t, i, s, e, end)]

numberFrom(t, i, s, e) == numberMatch(t, i, s, e, fracEnd(t, e))

\* The group (-?\d+(?:\.\d+)?) matched at i, and QString::toDouble of it.
matchNumber(t, i) == numberFrom(t, i, signEnd(t, i), skipDigits(t, signEnd(t, i)))

\* CommandParser::parseCoords
parseCoords(token) ==
    LET bad == [ok |-> FALSE, pt |-> <<0, 0>>,
                err |-> Msg("Invalid coordinate format '%1'. Expected {x,y}.", <<token>>)]
        i1 == skipWs(token, 2)
        x  == matchNumber(token, i1)
        i2 == skipWs(token, x.next)
        i3 == skipWs(token, i2 + 1)
        y  == matchNumber(token, i3)
        i4 == skipWs(token, y.next)
    IN  IF Len(token) >= 1 /\ token[1] = "{"
           /\ x.ok /\ i2 <= Len(token) /\ token[i2] = ","
           /\ y.ok /\ i4 = Len(token) /\ token[i4] = "}"
        THEN [ok |-> TRUE, pt |-> <<x.val, y.val>>, err |-> NoMsg]
        ELSE bad

\* A flag whose value loses a leading dash.
parseFlagValueUndashed(flag, value, out) ==
    [ok |-> TRUE,
     cmd |-> [out EXCEPT !.args = insert(out.args, mid1(flag),
                                         IF startsWithDash(value) THEN mid1(value)
                                         ELSE value)]]

\* CommandParser::parseFlagValue
parseFlagValue(flag, value, out) ==
    [ok |-> TRUE, cmd |-> [out EXCEPT !.args = insert(out.args, mid1(flag), value)]]

\* A loop that passes over a token that is no flag.
RECURSIVE parseLoopSkipping(_, _, _)
parseLoopSkipping(tokens, i, out) ==
    IF i > Len(tokens) THEN [ok |-> TRUE, cmd |-> out, err |-> NoMsg]
    ELSE IF ~startsWithDash(tokens[i]) THEN parseLoopSkipping(tokens, i + 1, out)
    ELSE IF i + 1 > Len(tokens)
    THEN [ok |-> FALSE, cmd |-> out,
          err |-> Msg(IF startsWithDashCoord(tokens[i])
                      THEN "Expected coordinate after '%1'."
                      ELSE "Expected value after flag '%1'.", <<tokens[i]>>)]
    ELSE IF ~startsWithDashCoord(tokens[i])
    THEN parseLoopSkipping(tokens, i + 2, parseFlagValue(tokens[i], tokens[i + 1], out).cmd)
    ELSE IF ~parseCoords(tokens[i + 1]).ok
    THEN [ok |-> FALSE, cmd |-> out, err |-> parseCoords(tokens[i + 1]).err]
    ELSE parseLoopSkipping(tokens, i + 2,
                           [out EXCEPT !.coords = insert(out.coords, mid1(tokens[i]),
                                                         parseCoords(tokens[i + 1]).pt)])

\* A loop with one message for every flag that lacks its value.
RECURSIVE parseLoopOneMessage(_, _, _)
parseLoopOneMessage(tokens, i, out) ==
    IF i > Len(tokens) THEN [ok |-> TRUE, cmd |-> out, err |-> NoMsg]
    ELSE IF ~startsWithDash(tokens[i])
    THEN [ok |-> FALSE, cmd |-> out,
          err |-> Msg("Unexpected token '%1'. Flags should start with '-'.", <<tokens[i]>>)]
    ELSE IF i + 1 > Len(tokens)
    THEN [ok |-> FALSE, cmd |-> out,
          err |-> Msg("Expected value after flag '%1'.", <<tokens[i]>>)]
    ELSE IF ~startsWithDashCoord(tokens[i])
    THEN parseLoopOneMessage(tokens, i + 2,
                             parseFlagValue(tokens[i], tokens[i + 1], out).cmd)
    ELSE IF ~parseCoords(tokens[i + 1]).ok
    THEN [ok |-> FALSE, cmd |-> out, err |-> parseCoords(tokens[i + 1]).err]
    ELSE parseLoopOneMessage(tokens, i + 2,
                             [out EXCEPT !.coords = insert(out.coords, mid1(tokens[i]),
                                                           parseCoords(tokens[i + 1]).pt)])

\* The loop of CommandParser::parse over the tokens after the command name.
RECURSIVE parseLoop(_, _, _)
parseLoop(tokens, i, out) ==
    IF i > Len(tokens)
    THEN IF out.name = <<>>
         THEN [ok |-> FALSE, cmd |-> out, err |-> Msg("Command name is empty.", <<>>)]
         ELSE [ok |-> TRUE, cmd |-> out, err |-> NoMsg]
    ELSE
    LET t == tokens[i] IN
    IF startsWithDashCoord(t)
    THEN IF i + 1 > Len(tokens)
         THEN [ok |-> FALSE, cmd |-> out,
               err |-> Msg("Expected coordinate after '%1'.", <<t>>)]
         ELSE LET c == parseCoords(tokens[i + 1]) IN
              IF ~c.ok
              THEN [ok |-> FALSE, cmd |-> out, err |-> c.err]
              ELSE parseLoop(tokens, i + 2,
                             [out EXCEPT !.coords = insert(out.coords, mid1(t), c.pt)])
    ELSE IF startsWithDash(t)
    THEN IF i + 1 > Len(tokens)
         THEN [ok |-> FALSE, cmd |-> out,
               err |-> Msg("Expected value after flag '%1'.", <<t>>)]
         ELSE LET f == parseFlagValue(t, tokens[i + 1], out) IN
              IF ~f.ok
              THEN [ok |-> FALSE, cmd |-> out, err |-> NoMsg]
              ELSE parseLoop(tokens, i + 2, f.cmd)
    ELSE [ok |-> FALSE, cmd |-> out,
          err |-> Msg("Unexpected token '%1'. Flags should start with '-'.", <<t>>)]

\* CommandParser::parse
parse(raw) ==
    LET tokens == split(raw) IN
    IF tokens = <<>>
    THEN [ok |-> FALSE, cmd |-> EmptyCommand,
          err |-> Msg("No tokens found in the command.", <<>>)]
    ELSE parseLoop(Tail(tokens), 1, Command(Head(tokens), EmptyMap, EmptyMap))

---------------------------------------------------------------------------
(* Utility: geometry helpers.  A point is <<x, y>>, fixed-point.           *)
(* A product of two coordinates is a multiple of 1/Scale^2, which is far   *)
(* above eps = 1e-6 (and 1e-9) unless it is zero, and floating-point       *)
(* rounding stays far below eps: on these values |v| < eps is v = 0 and    *)
(* v > eps is v > 0.                                                       *)

abs(v) == IF v < 0 THEN 0 - v ELSE v

belowEps(v) == abs(v) = 0

aboveEps(v) == v > 0

\* A comparison that takes two zeros for different.
qFuzzyCompareNonZero(a, b) == a = b /\ a # 0

\* qFuzzyCompare(double, double) on values that are equal or differ by at
\* least 1/Scale.
qFuzzyCompare(a, b) == a = b

qMin(a, b) == IF a < b THEN a ELSE b

qMax(a, b) == IF a < b THEN b ELSE a

sub(a, b) == <<a[1] - b[1], a[2] - b[2]>>

dot(a, b) == a[1] * b[1] + a[2] * b[2]

dist2(a, b) == LET v == sub(a, b) IN v[1] * v[1] + v[2] * v[2]

\* A collinearity test that takes coincident vertices for a triangle.
areCollinearDistinct(a, b, c) ==
    /\ a # b /\ b # c /\ a # c
    /\ belowEps(sub(b, a)[1] * sub(c, a)[2] - sub(b, a)[2] * sub(c, a)[1])

\* A collinearity test on the cross product of b and c themselves.
areCollinearFromOrigin(a, b, c) == belowEps(b[1] * c[2] - b[2] * c[1])

areCollinear(a, b, c) ==
    LET ab == sub(b, a)
        ac == sub(c, a)
        cross == ab[1] * ac[2] - ab[2] * ac[1]
    IN  belowEps(cross)

isRightAngle(a, b, c) == belowEps(dot(sub(a, b), sub(c, b)))

\* The comparator handed to std::sort: by x, then by y.
pointLess(a, b) == IF a[1] = b[1] THEN a[2] < b[2] ELSE a[1] < b[1]

RECURSIVE insertSorted(_, _)
insertSorted(p, s) ==
    IF s = <<>> THEN <<p>>
    ELSE IF pointLess(Head(s), p) THEN <<Head(s)>> \o insertSorted(p, Tail(s))
    ELSE <<p>> \o s

\* std::sort(pts.begin(), pts.end(), pointLess)
RECURSIVE sortPoints(_)
sortPoints(s) == IF s = <<>> THEN <<>> ELSE insertSorted(Head(s), sortPoints(Tail(s)))

\* A rectangle test that takes its arguments in the order given.
isRectangleUnsorted(p1, p2, p3, p4) ==
    /\ isRightAngle(p2, p1, p3) \/ isRightAngle(p3, p1, p2)
    /\ isRightAngle(p2, p4, p3) \/ isRightAngle(p3, p4, p2)
    /\ belowEps(dist2(p1, p2) - dist2(p3, p4))
    /\ belowEps(dist2(p1, p3) - dist2(p2, p4))

\* A rectangle test that knows rectangles with sides along the axes only.
isRectangleAxisParallel(p1, p2, p3, p4) ==
    LET pts == sortPoints(<<p1, p2, p3, p4>>) IN
    /\ pts[1][1] = pts[2][1]
    /\ pts[3][1] = pts[4][1]
    /\ pts[1][2] = pts[3][2]
    /\ pts[2][2] = pts[4][2]

isRectangle(p1, p2, p3, p4) ==
    LET pts == sortPoints(<<p1, p2, p3, p4>>)
        A == pts[1]
        B == pts[2]
        C == pts[3]
        D == pts[4]
        rightA == isRightAngle(B, A, C) \/ isRightAngle(C, A, B)
        rightD == isRightAngle(B, D, C) \/ isRightAngle(C, D, B)
        dAB == dist2(A, B)
        dCD == dist2(C, D)
        dAC == dist2(A, C)
        dBD == dist2(B, D)
        oppEqual == belowEps(dAB - dCD) /\ belowEps(dAC - dBD)
    IN  rightA /\ rightD /\ oppEqual

isSquare(p1, p2, p3, p4) ==
    LET pts == sortPoints(<<p1, p2, p3, p4>>)
        A == pts[1]
        B == pts[2]
        C == pts[3]
        D == pts[4]
        s1 == qMin(dist2(A, B), dist2(A, C))
        s2 == qMin(dist2(D, B), dist2(D, C))
    IN  IF ~isRectangle(A, B, C, D) THEN FALSE
        ELSE belowEps(s1 - s2) /\ aboveEps(s1)

\* A diagonal test by the rule of the rectangle: both coordinates differ.
isValidSquareDiagonalBothDiffer(d1, d2) == d1[1] # d2[1] /\ d1[2] # d2[2]

isValidSquareDiagonal(d1, d2) == aboveEps(dist2(d1, d2))

---------------------------------------------------------------------------
(* Shapes.  A shape is the record of its constructor's results: its kind,  *)
(* its name, the points it stores (m_pts, or the two endpoints of a line)  *)
(* and the polygon handed to its graphics item.                            *)

Shape(kind, name, pts, polygon) ==
    [kind |-> kind, name |-> name, m_pts |-> pts, polygon |-> polygon]

LineShape(name, p1, p2) == Shape("line", name, <<p1, p2>>, <<p1, p2>>)

TriangleShape(name, p1, p2, p3) ==
    Shape("triangle", name, <<p1, p2, p3>>, <<p1, p2, p3>>)

\* A centre is kept as the numerators x and y over the divisor den, for
\* the point (x / den, y / den).

\* A centre that is the first endpoint.
LineShapeCenterAtStart(s) ==
    [x |-> s.m_pts[1][1], y |-> s.m_pts[1][2], den |-> 1]

\* LineShape::center: the sum of the endpoints over 2.
LineShapeCenter(s) ==
    [x |-> s.m_pts[1][1] + s.m_pts[2][1],
     y |-> s.m_pts[1][2] + s.m_pts[2][2],
     den |-> 2]

\* A centre that is the middle of the bounding box.
TriangleShapeCenterOfBox(s) ==
    [x |-> qMin(s.m_pts[1][1], qMin(s.m_pts[2][1], s.m_pts[3][1]))
             + qMax(s.m_pts[1][1], qMax(s.m_pts[2][1], s.m_pts[3][1])),
     y |-> qMin(s.m_pts[1][2], qMin(s.m_pts[2][2], s.m_pts[3][2]))
             + qMax(s.m_pts[1][2], qMax(s.m_pts[2][2], s.m_pts[3][2])),
     den |-> 2]

\* TriangleShape::center: the sum of the vertices over 3.
TriangleShapeCenter(s) ==
    [x |-> s.m_pts[1][1] + s.m_pts[2][1] + s.m_pts[3][1],
     y |-> s.m_pts[1][2] + s.m_pts[2][2] + s.m_pts[3][2],
     den |-> 3]

\* RectangleShape(name, p1, p2): the axis-aligned box of the diagonal.
RectangleShapeDiagonal(name, p1, p2) ==
    LET x1 == qMin(p1[1], p2[1])
        x2 == qMax(p1[1], p2[1])
        y1 == qMin(p1[2], p2[2])
        y2 == qMax(p1[2], p2[2])
        pts == <<<<x1, y1>>, <<x2, y1>>, <<x2, y2>>, <<x1, y2>>>>
    IN  Shape("rectangle", name, pts, pts)

RECURSIVE minOf(_, _)
minOf(s, k) == IF Len(s) = 1 THEN s[1][k] ELSE qMin(s[1][k], minOf(Tail(s), k))

RECURSIVE maxOf(_, _)
maxOf(s, k) == IF Len(s) = 1 THEN s[1][k] ELSE qMax(s[1][k], maxOf(Tail(s), k))

\* RectangleShape(name, points): keeps the points, draws their bounding box.
RectangleShapePoints(name, points) ==
    LET minX == minOf(points, 1)
        maxX == maxOf(points, 1)
        minY == minOf(points, 2)
        maxY == maxOf(points, 2)
    IN  Shape("rectangle", name, points,
              <<<<minX, minY>>, <<maxX, minY>>, <<maxX, maxY>>, <<minX, maxY>>>>)

\* SquareShape(name, d1, d2).  With v = d2 - d1 the corners are
\* d2 + q, d1 + q, d1 - q, d2 - q, where q = (-v.y, v.x) * sqrt(2) / 4.
\* A corner is kept as <<x, y, qx, qy>> for the point
\* (x + qx * sqrt(2) / 4, y + qy * sqrt(2) / 4).
SquareShapeDiagonal(name, d1, d2) ==
    LET v == sub(d2, d1)
        a == <<d2[1], d2[2], 0 - v[2], v[1]>>
        b == <<d1[1], d1[2], 0 - v[2], v[1]>>
        c == <<d1[1], d1[2], v[2], 0 - v[1]>>
        d == <<d2[1], d2[2], v[2], 0 - v[1]>>
    IN  Shape("square", name, <<a, b, c, d>>, <<a, b, c, d>>)

\* SquareShape(name, vertices)
SquareShapeVertices(name, vertices) == Shape("square", name, vertices, vertices)

---------------------------------------------------------------------------
(* ShapeRepository and QGraphicsScene *)

repoContains(items, name) == name \in DOMAIN items

\* An add that drops the entries the registry held.
repoAddAlone(items, name, shape) == insert(EmptyMap, name, shape)

\* ShapeRepository::add
repoAdd(items, name, shape) == insert(items, name, shape)

\* ShapeRepository::get; nullptr is the shape of kind "null".
nullptr == Shape("null", <<>>, <<>>, <<>>)

repoGet(items, name) == IF name \in DOMAIN items THEN items[name] ELSE nullptr

EmptyScene == [items |-> <<>>, links |-> 0]

\* QGraphicsScene::addItem
addItem(sc, shape) == [sc EXCEPT !.items = Append(@, shape)]

\* QGraphicsScene::addLine
addLine(sc) == [sc EXCEPT !.links = @ + 1]

State(r, sc) == [repo |-> r, scene |-> sc]

---------------------------------------------------------------------------
(* CommandDispatcher.  A handler takes the parsed command and the state    *)
(* st = [repo, scene] it runs in and gives [ok, msg, repo, scene].         *)

Tok(a) == <<a>>

CoordKey(n) == <<"coord_", n>>

Result(ok, msg, r, sc) == [ok |-> ok, msg |-> msg, repo |-> r, scene |-> sc]

\* A failure that resets the registry.
FailResetting(msg, st) == Result(FALSE, msg, EmptyMap, st.scene)

\* return false, with the message, out of a handler: nothing was added.
Fail(msg, st) == Result(FALSE, msg, st.repo, st.scene)

\* CommandDispatcher::requireName
requireName(cmd) ==
    IF ~contains(cmd.args, Tok("name"))
    THEN [ok |-> FALSE, name |-> <<>>, msg |-> Msg("Missing -name flag.", <<>>)]
    ELSE LET nameOut == trimmed(cmd.args[Tok("name")]) IN
         IF nameOut = <<>>
         THEN [ok |-> FALSE, name |-> nameOut, msg |-> Msg("Name cannot be empty.", <<>>)]
         ELSE [ok |-> TRUE, name |-> nameOut, msg |-> NoMsg]

\* A uniqueness check that accepts every name.
validateUniqueNameAny(name, items) == [ok |-> TRUE, msg |-> NoMsg]

\* CommandDispatcher::validateUniqueName
validateUniqueName(name, items) ==
    IF repoContains(items, name)
    THEN [ok |-> FALSE,
          msg |-> Msg("An object named '%1' already exists. Choose a unique name.",
                      <<name>>)]
    ELSE [ok |-> TRUE, msg |-> NoMsg]

\* CommandDispatcher::requireCoord
requireCoord(cmd, key) ==
    IF ~contains(cmd.coords, key)
    THEN [ok |-> FALSE, pt |-> <<0, 0>>, msg |-> Msg("Missing -%1 coordinate.", <<key>>)]
    ELSE [ok |-> TRUE, pt |-> cmd.coords[key], msg |-> NoMsg]

\* A registration that hands nothing to the scene.
registerWithoutItem(name, shape, msg, st) ==
    Result(TRUE, msg, repoAdd(st.repo, name, shape), st.scene)

\* The tail of every create handler: addItem, add, the success message.
register(name, shape, msg, st) ==
    Result(TRUE, msg, repoAdd(st.repo, name, shape), addItem(st.scene, shape))

\* CommandDispatcher::handleCreateLine
handleCreateLine(cmd, st) ==
    LET n  == requireName(cmd)
        u  == validateUniqueName(n.name, st.repo)
        c1 == requireCoord(cmd, CoordKey("1"))
        c2 == requireCoord(cmd, CoordKey("2"))
    IN  IF ~n.ok THEN Fail(n.msg, st)
        ELSE IF ~u.ok THEN Fail(u.msg, st)
        ELSE IF ~c1.ok THEN Fail(c1.msg, st)
        ELSE IF ~c2.ok THEN Fail(c2.msg, st)
        ELSE register(n.name, LineShape(n.name, c1.pt, c2.pt),
                      Msg("Line '%1' created from (%2,%3) to (%4,%5).",
                          <<n.name, c1.pt[1], c1.pt[2], c2.pt[1], c2.pt[2]>>), st)

\* A create_triangle that reads its coordinates before it checks the name.
handleCreateTriangleCoordsFirst(cmd, st) ==
    IF ~requireCoord(cmd, CoordKey("1")).ok
    THEN Fail(requireCoord(cmd, CoordKey("1")).msg, st)
    ELSE IF ~requireCoord(cmd, CoordKey("2")).ok
    THEN Fail(requireCoord(cmd, CoordKey("2")).msg, st)
    ELSE IF ~requireCoord(cmd, CoordKey("3")).ok
    THEN Fail(requireCoord(cmd, CoordKey("3")).msg, st)
    ELSE IF areCollinear(cmd.coords[CoordKey("1")], cmd.coords[CoordKey("2")],
                         cmd.coords[CoordKey("3")])
    THEN Fail(Msg("Triangle vertices are collinear. Provide non-collinear points.",
                  <<>>), st)
    ELSE IF ~requireName(cmd).ok THEN Fail(requireName(cmd).msg, st)
    ELSE IF ~validateUniqueName(requireName(cmd).name, st.repo).ok
    THEN Fail(validateUniqueName(requireName(cmd).name, st.repo).msg, st)
    ELSE register(requireName(cmd).name,
                  TriangleShape(requireName(cmd).name, cmd.coords[CoordKey("1")],
                                cmd.coords[CoordKey("2")], cmd.coords[CoordKey("3")]),
                  Msg("Triangle '%1' created.", <<requireName(cmd).name>>), st)

\* CommandDispatcher::handleCreateTriangle
handleCreateTriangle(cmd, st) ==
    LET n  == requireName(cmd)
        u  == validateUniqueName(n.name, st.repo)
        c1 == requireCoord(cmd, CoordKey("1"))
        c2 == requireCoord(cmd, CoordKey("2"))
        c3 == requireCoord(cmd, CoordKey("3"))
    IN  IF ~n.ok THEN Fail(n.msg, st)
        ELSE IF ~u.ok THEN Fail(u.msg, st)
        ELSE IF ~c1.ok THEN Fail(c1.msg, st)
        ELSE IF ~c2.ok THEN Fail(c2.msg, st)
        ELSE IF ~c3.ok THEN Fail(c3.msg, st)
        ELSE IF areCollinear(c1.pt, c2.pt, c3.pt)
        THEN Fail(Msg("Triangle vertices are collinear. Provide non-collinear points.",
                      <<>>), st)
        ELSE register(n.name, TriangleShape(n.name, c1.pt, c2.pt, c3.pt),
                      Msg("Triangle '%1' created.", <<n.name>>), st)

\* A mode test that never finds four corners.
hasFourNever(cmd) == FALSE

\* hasFour of handleCreateRectangle and handleCreateSquare
hasFour(cmd) ==
    /\ contains(cmd.coords, CoordKey("1"))
    /\ contains(cmd.coords, CoordKey("2"))
    /\ contains(cmd.coords, CoordKey("3"))
    /\ contains(cmd.coords, CoordKey("4"))

\* A handler that refuses a third or fourth corner given alone.
handleCreateRectangleStrict(cmd, st) ==
    LET n  == requireName(cmd)
        u  == validateUniqueName(n.name, st.repo)
    IN  IF ~n.ok THEN Fail(n.msg, st)
        ELSE IF ~u.ok THEN Fail(u.msg, st)
        ELSE IF hasFour(cmd)
        THEN LET p1 == cmd.coords[CoordKey("1")]
                 p2 == cmd.coords[CoordKey("2")]
                 p3 == cmd.coords[CoordKey("3")]
                 p4 == cmd.coords[CoordKey("4")]
             IN  IF ~isRectangle(p1, p2, p3, p4)
                 THEN Fail(Msg("Provided corners do not form a rectangle.", <<>>), st)
                 ELSE register(n.name, RectangleShapePoints(n.name, <<p1, p2, p3, p4>>),
                               Msg("Rectangle '%1' created from four corners.",
                                   <<n.name>>), st)
        ELSE IF contains(cmd.coords, CoordKey("3")) \/ contains(cmd.coords, CoordKey("4"))
        THEN Fail(Msg("Provide two diagonal points or four corners.", <<>>), st)
        ELSE LET c1 == requireCoord(cmd, CoordKey("1"))
                 c2 == requireCoord(cmd, CoordKey("2"))
             IN  IF ~c1.ok THEN Fail(c1.msg, st)
                 ELSE IF ~c2.ok THEN Fail(c2.msg, st)
                 ELSE IF qFuzzyCompare(c1.pt[1], c2.pt[1])
                         \/ qFuzzyCompare(c1.pt[2], c2.pt[2])
                 THEN Fail(Msg("Diagonal points must differ in both x and y for a valid rectangle.",
                               <<>>), st)
                 ELSE register(n.name, RectangleShapeDiagonal(n.name, c1.pt, c2.pt),
                               Msg("Rectangle '%1' created from diagonal points.",
                                   <<n.name>>), st)

\* CommandDispatcher::handleCreateRectangle
handleCreateRectangle(cmd, st) ==
    LET n  == requireName(cmd)
        u  == validateUniqueName(n.name, st.repo)
    IN  IF ~n.ok THEN Fail(n.msg, st)
        ELSE IF ~u.ok THEN Fail(u.msg, st)
        ELSE IF hasFour(cmd)
        THEN LET p1 == cmd.coords[CoordKey("1")]
                 p2 == cmd.coords[CoordKey("2")]
                 p3 == cmd.coords[CoordKey("3")]
                 p4 == cmd.coords[CoordKey("4")]
             IN  IF ~isRectangle(p1, p2, p3, p4)
                 THEN Fail(Msg("Provided corners do not form a rectangle.", <<>>), st)
                 ELSE register(n.name, RectangleShapePoints(n.name, <<p1, p2, p3, p4>>),
                               Msg("Rectangle '%1' created from four corners.",
                                   <<n.name>>), st)
        ELSE LET c1 == requireCoord(cmd, CoordKey("1"))
                 c2 == requireCoord(cmd, CoordKey("2"))
             IN  IF ~c1.ok THEN Fail(c1.msg, st)
                 ELSE IF ~c2.ok THEN Fail(c2.msg, st)
                 ELSE IF qFuzzyCompare(c1.pt[1], c2.pt[1])
                         \/ qFuzzyCompare(c1.pt[2], c2.pt[2])
                 THEN Fail(Msg("Diagonal points must differ in both x and y for a valid rectangle.",
                               <<>>), st)
                 ELSE register(n.name, RectangleShapeDiagonal(n.name, c1.pt, c2.pt),
                               Msg("Rectangle '%1' created from diagonal points.",
                                   <<n.name>>), st)

\* CommandDispatcher::handleCreateSquare
handleCreateSquare(cmd, st) ==
    LET n  == requireName(cmd)
        u  == validateUniqueName(n.name, st.repo)
    IN  IF ~n.ok THEN Fail(n.msg, st)
        ELSE IF ~u.ok THEN Fail(u.msg, st)
        ELSE IF hasFour(cmd)
        THEN LET p1 == cmd.coords[CoordKey("1")]
                 p2 == cmd.coords[CoordKey("2")]
                 p3 == cmd.coords[CoordKey("3")]
                 p4 == cmd.coords[CoordKey("4")]
             IN  IF ~isSquare(p1, p2, p3, p4)
                 THEN Fail(Msg("Provided vertices do not form a square.", <<>>), st)
                 ELSE register(n.name, SquareShapeVertices(n.name, <<p1, p2, p3, p4>>),
                               Msg("Square '%1' created from four vertices.",
                                   <<n.name>>), st)
        ELSE LET c1 == requireCoord(cmd, CoordKey("1"))
                 c2 == requireCoord(cmd, CoordKey("2"))
             IN  IF ~c1.ok THEN Fail(c1.msg, st)
                 ELSE IF ~c2.ok THEN Fail(c2.msg, st)
                 ELSE IF ~isValidSquareDiagonal(c1.pt, c2.pt)
                 THEN Fail(Msg("Diagonal points do not define a valid square.", <<>>), st)
                 ELSE register(n.name, SquareShapeDiagonal(n.name, c1.pt, c2.pt),
                               Msg("Square '%1' created from diagonal points.",
                                   <<n.name>>), st)

\* A connect that stores the connection in the registry under a name.
handleConnectStored(cmd, st) ==
    IF ~contains(cmd.args, Tok("object_name_1"))
       \/ ~contains(cmd.args, Tok("object_name_2"))
    THEN Fail(Msg("Missing -object_name_1 or -object_name_2.", <<>>), st)
    ELSE IF repoGet(st.repo, cmd.args[Tok("object_name_1")]) = nullptr
            \/ repoGet(st.repo, cmd.args[Tok("object_name_2")]) = nullptr
         THEN Fail(Msg("One or both objects not found.", <<>>), st)
         ELSE Result(TRUE, Msg("Connected '%1' and '%2' by their centers.",
                               <<cmd.args[Tok("object_name_1")],
                                 cmd.args[Tok("object_name_2")]>>),
                     repoAdd(st.repo, Tok("connection"),
                             LineShape(Tok("connection"), <<0, 0>>, <<0, 0>>)),
                     addLine(st.scene))

\* A connect that fails only when both objects are missing.
handleConnectBothMissing(cmd, st) ==
    IF ~contains(cmd.args, Tok("object_name_1"))
       \/ ~contains(cmd.args, Tok("object_name_2"))
    THEN Fail(Msg("Missing -object_name_1 or -object_name_2.", <<>>), st)
    ELSE IF repoGet(st.repo, cmd.args[Tok("object_name_1")]) = nullptr
            /\ repoGet(st.repo, cmd.args[Tok("object_name_2")]) = nullptr
         THEN Fail(Msg("One or both objects not found.", <<>>), st)
         ELSE Result(TRUE, Msg("Connected '%1' and '%2' by their centers.",
                               <<cmd.args[Tok("object_name_1")],
                                 cmd.args[Tok("object_name_2")]>>),
                     st.repo, addLine(st.scene))

\* CommandDispatcher::handleConnect.  The scene keeps how many dashed lines
\* were added, not where they run.
handleConnect(cmd, st) ==
    IF ~contains(cmd.args, Tok("object_name_1"))
       \/ ~contains(cmd.args, Tok("object_name_2"))
    THEN Fail(Msg("Missing -object_name_1 or -object_name_2.", <<>>), st)
    ELSE LET n1 == cmd.args[Tok("object_name_1")]
             n2 == cmd.args[Tok("object_name_2")]
             s1 == repoGet(st.repo, n1)
             s2 == repoGet(st.repo, n2)
         IN  IF s1 = nullptr \/ s2 = nullptr
             THEN Fail(Msg("One or both objects not found.", <<>>), st)
             ELSE Result(TRUE, Msg("Connected '%1' and '%2' by their centers.", <<n1, n2>>),
                         st.repo, addLine(st.scene))

CreateNames ==
    {Tok("create_line"), Tok("create_triangle"), Tok("create_rectangle"),
     Tok("create_square")}

\* A dispatch that takes every name beginning with create_line for
\* create_line.
executeByPrefix(cmd, st) ==
    IF Head(cmd.name) = "create_line" THEN handleCreateLine(cmd, st)
    ELSE IF cmd.name = Tok("create_triangle") THEN handleCreateTriangle(cmd, st)
    ELSE IF cmd.name = Tok("create_rectangle") THEN handleCreateRectangle(cmd, st)
    ELSE IF cmd.name = Tok("create_square") THEN handleCreateSquare(cmd, st)
    ELSE IF cmd.name = Tok("connect") THEN handleConnect(cmd, st)
    ELSE Fail(Msg("Unknown command '%1'.", <<cmd.name>>), st)

\* CommandDispatcher::execute, for every command but execute_file, whose
\* handler runs over several steps (OpenScript, ScriptLine, ScriptReturn).
execute(cmd, st) ==
    IF cmd.name = Tok("create_line") THEN handleCreateLine(cmd, st)
    ELSE IF cmd.name = Tok("create_triangle") THEN handleCreateTriangle(cmd, st)
    ELSE IF cmd.name = Tok("create_rectangle") THEN handleCreateRectangle(cmd, st)
    ELSE IF cmd.name = Tok("create_square") THEN handleCreateSquare(cmd, st)
    ELSE IF cmd.name = Tok("connect") THEN handleConnect(cmd, st)
    ELSE Fail(Msg("Unknown command '%1'.", <<cmd.name>>), st)

---------------------------------------------------------------------------
(* The inputs: command lines typed at the console or written in scripts *)

Flag(k) == <<"-", k>>

CoordFlag(n) == <<"-", "coord_", n>>

\* The token {x,y}; x and y are sequences of atoms, such as <<"-", "1">>.
Pt(x, y) == <<"{">> \o x \o <<",">> \o y \o <<"}">>

P00 == Pt(<<"0">>, <<"0">>)
P21 == Pt(<<"2">>, <<"1">>)
P01 == Pt(<<"0">>, <<"1">>)
P42 == Pt(<<"4">>, <<"2">>)
P13 == Pt(<<"1">>, <<"3">>)
Pm12 == Pt(<<"-", "1">>, <<"2">>)

\* The tokens joined by single blanks.
RECURSIVE joinTokens(_)
joinTokens(toks) ==
    IF toks = <<>> THEN <<>>
    ELSE IF Len(toks) = 1 THEN toks[1]
    ELSE toks[1] \o <<" ">> \o joinTokens(Tail(toks))

\* -coord_1 c[1] -coord_2 c[2] ...
RECURSIVE coordArgs(_, _)
coordArgs(c, k) ==
    IF k > Len(c) THEN <<>>
    ELSE <<CoordFlag(<<"1", "2", "3", "4">>[k]), c[k]>> \o coordArgs(c, k + 1)

NameA == Tok("A")
NameB == Tok("B")
NameC == Tok("C")

F1 == Tok("F1")
F2 == Tok("F2")
FX == Tok("FX")

\* <command> -name <name> -coord_1 ... ; without -name when name is <<>>.
CreateLine(cmdName, name, c) ==
    joinTokens(<<Tok(cmdName)>>
               \o (IF name = <<>> THEN <<>> ELSE <<Flag("name"), name>>)
               \o coordArgs(c, 1))

ConnectLine(n1, n2) ==
    joinTokens(<<Tok("connect"), Flag("object_name_1"), n1, Flag("object_name_2"), n2>>)

ExecuteFileLine(path) == joinTokens(<<Tok("execute_file"), Flag("file_path"), path>>)

CommentLine == <<"#", " ", "note">>

BlankLine == <<" ", " ">>

CreateCommands == {"create_line", "create_triangle", "create_rectangle", "create_square"}

\* Coordinate lists: none; a diagonal; one point twice; a triangle; three
\* points on a line; the four corners of a (rotated) square; four points
\* that are the corners of no rectangle.
CoordLists ==
    { <<>>,
      <<P00, P21>>,
      <<P00, P00>>,
      <<P00, P21, P01>>,
      <<P00, P21, P42>>,
      <<P00, P21, P13, Pm12>>,
      <<P00, P21, P42, P01>> }

MalformedLines ==
    { joinTokens(<<Tok("create_line"), NameA>>),
      joinTokens(<<Tok("create_line"), Flag("name"), NameB, CoordFlag("1"),
                   <<"{", "0", ",">>, <<"0", "}">>>>) }

ConsoleLines ==
    {CreateLine(c, NameA, l) : c \in CreateCommands, l \in CoordLists}
    \cup {CreateLine(c, <<>>, l) : c \in CreateCommands, l \in CoordLists}
    \cup {CreateLine("create_line", NameB, <<P00, P21>>)}
    \cup {ConnectLine(NameA, NameB), ConnectLine(NameA, NameC), ConnectLine(NameC, NameA),
          joinTokens(<<Tok("connect"), Flag("object_name_1"), NameA>>),
          joinTokens(<<Tok("connect"), Flag("object_name_2"), NameA>>)}
    \cup {ExecuteFileLine(F1), ExecuteFileLine(F2), ExecuteFileLine(FX),
          Tok("execute_file")}
    \cup {Tok("bogus"), CommentLine, BlankLine}
    \cup {joinTokens(<<n, Flag("name"), NameC, CoordFlag("1"), P00, CoordFlag("2"), P21>>) :
            n \in {<<"create_line", "s">>, Tok("Create_line")}}
    \cup MalformedLines

\* The script files of the console specification.
ConsoleFiles ==
    (F1 :> << CreateLine("create_line", NameA, <<P00, P21>>),
              CreateLine("create_square", NameA, <<P00, P21>>),
              ExecuteFileLine(F2) >>)
    @@
    (F2 :> << CreateLine("create_line", NameB, <<P00, P21>>),
              BlankLine,
              ConnectLine(NameA, NameB) >>)

\* The lines generated scripts are made of: skipped lines, lines whose
\* outcome depends on the lines before them, a line that does not parse,
\* nested and recursive execute_file.
ScriptAlphabet ==
    { BlankLine,
      CommentLine,
      CreateLine("create_line", NameA, <<P00, P21>>),
      CreateLine("create_line", NameB, <<P00, P21>>),
      ConnectLine(NameA, NameB),
      joinTokens(<<Tok("create_line"), NameA>>),
      ExecuteFileLine(F2),
      ExecuteFileLine(F1) }

\* Every script of at most n lines over the alphabet.
RECURSIVE ScriptsUpTo(_)
ScriptsUpTo(n) ==
    IF n = 0 THEN {<<>>}
    ELSE LET shorter == ScriptsUpTo(n - 1) IN
         shorter \cup {Append(sc, l) : sc \in shorter, l \in ScriptAlphabet}

\* Five lines, two of them invalid.
ExampleScript ==
    << CreateLine("create_line", NameA, <<P00, P21>>),
       joinTokens(<<Tok("create_line"), NameA>>),
       CreateLine("create_line", NameB, <<P00, P21>>),
       CreateLine("create_line", NameA, <<P00, P21>>),
       ConnectLine(NameA, NameB) >>

\* The contents of F1 and of F2 in the script specification.
ScriptsF1 == ScriptsUpTo(MaxLines) \cup {ExampleScript}

ScriptsF2 ==
    { << CreateLine("create_line", NameB, <<P00, P21>>), BlankLine,
         ConnectLine(NameA, NameB) >>,
      << ExecuteFileLine(F1) >> }

ScriptConsoleLines == {ExecuteFileLine(F1), ExecuteFileLine(F2)}

\* The inputs of the shapes specification.  Coordinates 0..GridMax on both
\* axes, and three points off the grid with a negative or fractional
\* coordinate that lie on the diagonal or on the x axis.
DigitAtoms == <<"0", "1", "2", "3", "4", "5", "6", "7", "8", "9">>

GridCoords == {Tok(DigitAtoms[n + 1]) : n \in 0..GridMax}

GridPts == {Pt(x, y) : x, y \in GridCoords}

\* The points of the grid, numbered column by column.
GridIndex == 0..((GridMax + 1) * (GridMax + 1) - 1)

GridPt(n) ==
    Pt(Tok(DigitAtoms[(n \div (GridMax + 1)) + 1]), Tok(DigitAtoms[(n % (GridMax + 1)) + 1]))

OffGridPts ==
    { Pt(<<"-", "1">>, <<"-", "1">>),
      Pt(<<"0", ".", "5">>, <<"0", ".", "5">>),
      Pt(<<"1", ".", "5">>, <<"0">>) }

ShapePts == GridPts \cup OffGridPts

P10 == Pt(<<"1">>, <<"0">>)
P11 == Pt(<<"1">>, <<"1">>)
P20 == Pt(<<"2">>, <<"0">>)
P22 == Pt(<<"2">>, <<"2">>)
P02 == Pt(<<"0">>, <<"2">>)
P12 == Pt(<<"1">>, <<"2">>)
P30 == Pt(<<"3">>, <<"0">>)
P31 == Pt(<<"3">>, <<"1">>)
P32 == Pt(<<"3">>, <<"2">>)
P23 == Pt(<<"2">>, <<"3">>)

P52 == Pt(<<"5">>, <<"2">>)
P04 == Pt(<<"0">>, <<"4">>)

\* Four points: the corners of squares and rectangles, axis-parallel and
\* rotated, in drawing order; of a parallelogram and of a trapezium; four
\* points on a line; and lists in which a point is repeated.
FourPoints ==
    { <<P00, P10, P11, P01>>,
      <<P00, P20, P22, P02>>,
      <<P00, P30, P32, P02>>,
      <<P00, P20, P21, P01>>,
      <<P10, P21, P12, P01>>,
      <<P00, P21, P13, Pm12>>,
      <<P01, P10, P32, P23>>,
      <<P00, P20, P31, P11>>,
      <<P00, P20, P21, P02>>,
      <<P00, P10, P20, P30>>,
      <<P11, P11, P11, P11>>,
      <<P00, P00, P11, P11>>,
      <<P00, P00, P20, P20>>,
      <<P00, P00, P00, P10>>,
      <<P00, P00, P10, P01>>,
      <<P00, P20, P22, P22>> }

\* The orders in which four arguments can be given.
Orders4 == {f \in [1..4 -> 1..4] : \A i, j \in 1..4 : f[i] = f[j] => i = j}

FourPointLists == {[i \in 1..4 |-> c[f[i]]] : c \in FourPoints, f \in Orders4}

\* create_line on every two points, one of them (5,2); create_triangle on
\* every three points and on (0,0), (3,0), (0,4); create_rectangle and
\* create_square on every two points, on diagonals that reach x = 3, on
\* two points with a third, and on the lists of four points in every order;
\* both on coordinate flags with one or two of the four left out;
\* create_rectangle on every choice of four points of the grid, repeated
\* points included, each choice in one order.
ShapeLines ==
    {CreateLine("create_line", NameA, <<a, b>>) : a, b \in ShapePts \cup {P52}}
    \cup {CreateLine("create_triangle", NameA, <<a, b, c>>) : a, b, c \in ShapePts}
    \cup {CreateLine("create_triangle", NameA, <<a, b, c>>) : a, b, c \in {P00, P30, P04}}
    \cup {CreateLine(k, NameA, <<a, b>>) :
            k \in {"create_rectangle", "create_square"}, a, b \in ShapePts}
    \cup {CreateLine(k, NameA, c) :
            k \in {"create_rectangle", "create_square"},
            c \in {<<P00, P30>>, <<P30, P00>>, <<P00, P32>>}}
    \cup {CreateLine(k, NameA, <<a, b, P11>>) :
            k \in {"create_rectangle", "create_square"}, a, b \in GridPts}
    \cup {CreateLine(k, NameA, c) :
            k \in {"create_rectangle", "create_square"}, c \in FourPointLists}
    \cup {joinTokens(<<Tok(k), Flag("name"), NameA>> \o c) :
            k \in {"create_rectangle", "create_square"},
            c \in {<<CoordFlag("1"), P00, CoordFlag("2"), P21, CoordFlag("4"), P01>>,
                   <<CoordFlag("1"), P00, CoordFlag("3"), P21, CoordFlag("4"), P01>>,
                   <<CoordFlag("2"), P00, CoordFlag("3"), P21, CoordFlag("4"), P01>>,
                   <<CoordFlag("3"), P00, CoordFlag("4"), P21>>,
                   <<CoordFlag("4"), P01, CoordFlag("2"), P21, CoordFlag("1"), P00>>}}
    \cup {CreateLine("create_rectangle", NameA,
                      <<GridPt(i), GridPt(j), GridPt(k), GridPt(l)>>) :
            <<i, j, k, l>> \in {q \in GridIndex \X GridIndex \X GridIndex \X GridIndex :
                                  q[1] <= q[2] /\ q[2] <= q[3] /\ q[3] <= q[4]}}

\* The inputs of the parser specification: texts of up to MaxTokens
\* tokens, each a command name or value, a flag, a coordinate flag, a
\* coordinate, the two halves of a coordinate written with a blank after
\* its comma, or a dash alone; joined by single blanks, and the shorter
\* ones also with blanks around them and with two blanks between tokens;
\* texts with one flag given twice; and texts of blanks only.
ParseTokens ==
    { Tok("create_line"), Flag("name"), NameA, CoordFlag("1"),
      Pt(<<"1">>, <<"-", "2", ".", "5">>), <<"{", "0", ",">>, <<"0", "}">>, Tok("-") }

RECURSIVE TokenSeqsUpTo(_)
TokenSeqsUpTo(n) ==
    IF n = 0 THEN {<<>>}
    ELSE LET shorter == TokenSeqsUpTo(n - 1) IN
         shorter \cup {Append(ts, t) : ts \in shorter, t \in ParseTokens}

ParseInputs ==
    {joinTokens(ts) : ts \in TokenSeqsUpTo(MaxTokens)}
    \cup {<<" ">> \o joinTokens(ts) \o <<" ", " ">> : ts \in TokenSeqsUpTo(2)}
    \cup {a \o <<" ", " ">> \o b : a, b \in ParseTokens}
    \cup {joinTokens(<<Tok("create_line"), f, v, f, w>>) :
            f \in {Flag("name"), CoordFlag("1"), Tok("-")},
            v, w \in ParseTokens \cup {P00}}
    \cup {<<>>, <<" ">>, <<" ", " ">>}

\* CommandParser().parse on every text the inputs hold, computed once.
Texts ==
    {trimmed(l) : l \in ConsoleLines \cup ScriptAlphabet \cup ScriptConsoleLines
                       \cup ShapeLines}
    \cup UNION {{trimmed(ConsoleFiles[f][i]) : i \in 1..Len(ConsoleFiles[f])} :
                f \in DOMAIN ConsoleFiles}
    \cup UNION {{trimmed(sc[i]) : i \in 1..Len(sc)} : sc \in ScriptsF2 \cup {ExampleScript}}

parseOf == [t \in Texts |-> parse(t)]

---------------------------------------------------------------------------
(* execute_file.  A call of handleExecuteFile that has opened its script   *)
(* is a frame on the stack: the locals of the handler, and as history the  *)
(* line that called it, the state it was called in and a log with one      *)
(* entry per line handed to the parser.                                    *)

\* An open that falls back to the script F1 when the file is missing.
openScriptFallback(cmd, fs) ==
    IF ~contains(cmd.args, Tok("file_path"))
    THEN [ok |-> FALSE, path |-> <<>>, msg |-> Msg("Missing -file_path.", <<>>)]
    ELSE [ok |-> TRUE,
          path |-> IF cmd.args[Tok("file_path")] \in DOMAIN fs
                   THEN cmd.args[Tok("file_path")] ELSE F1,
          msg |-> NoMsg]

\* The head of CommandDispatcher::handleExecuteFile: the flag, QFile::open.
openScript(cmd, fs) ==
    IF ~contains(cmd.args, Tok("file_path"))
    THEN [ok |-> FALSE, path |-> <<>>, msg |-> Msg("Missing -file_path.", <<>>)]
    ELSE LET path == cmd.args[Tok("file_path")] IN
         IF path \notin DOMAIN fs
         THEN [ok |-> FALSE, path |-> path,
               msg |-> Msg("Failed to open script file: %1", <<path>>)]
         ELSE [ok |-> TRUE, path |-> path, msg |-> NoMsg]

\* A call whose loop starts after the first line of the script.
FrameFromSecond(path, ctx, text, cmd, st) ==
    [path |-> path, lineNo |-> 1, successCount |-> 0, failureCount |-> 0,
     msg |-> <<>>, ctx |-> ctx, text |-> text, cmd |-> cmd, pre |-> st, log |-> <<>>]

\* The locals of handleExecuteFile when its loop starts.
Frame(path, ctx, text, cmd, st) ==
    [path |-> path, lineNo |-> 0, successCount |-> 0, failureCount |-> 0,
     msg |-> <<>>, ctx |-> ctx, text |-> text, cmd |-> cmd, pre |-> st, log |-> <<>>]

LogEntry(lineNo, text, parsed, ok, pre, post) ==
    [lineNo |-> lineNo, text |-> text, parsed |-> parsed, ok |-> ok,
     pre |-> pre, post |-> post]

\* A loop that also ends at the first line that failed.
atEndOrFailed(f, fs) == f.lineNo >= Len(fs[f.path]) \/ f.failureCount > 0

\* in.atEnd()
atEnd(f, fs) == f.lineNo >= Len(fs[f.path])

\* A parse failure that is reported once per distinct error.
lineParseErrorOnce(f, lineNo, text, err, st) ==
    [f EXCEPT !.lineNo = lineNo,
              !.failureCount = @ + 1,
              !.msg = IF \E k \in 1..Len(@) : @[k].args[2] = err
                      THEN @
                      ELSE Append(@, Msg("\nLine %1 parse error: %2", <<lineNo, err>>)),
              !.log = Append(@, LogEntry(lineNo, text, FALSE, FALSE, st.repo, st.repo))]

\* The loop body after a line failed to parse (lines 343-346).
lineParseError(f, lineNo, text, err, st) ==
    [f EXCEPT !.lineNo = lineNo,
              !.failureCount = @ + 1,
              !.msg = Append(@, Msg("\nLine %1 parse error: %2", <<lineNo, err>>)),
              !.log = Append(@, LogEntry(lineNo, text, FALSE, FALSE, st.repo, st.repo))]

\* A loop body that numbers a failure by the lines attempted so far.
lineExecutedNumberingAttempts(f, lineNo, text, ok, execMsg, pre, post) ==
    IF ~ok
    THEN [f EXCEPT !.lineNo = lineNo,
                   !.failureCount = @ + 1,
                   !.msg = Append(@, Msg("\nLine %1 failed: %2",
                                         <<f.successCount + f.failureCount + 1, execMsg>>)),
                   !.log = Append(@, LogEntry(lineNo, text, TRUE, FALSE, pre, post))]
    ELSE [f EXCEPT !.lineNo = lineNo,
                   !.successCount = @ + 1,
                   !.log = Append(@, LogEntry(lineNo, text, TRUE, TRUE, pre, post))]

\* The loop body after execute returned (lines 350-355).
lineExecuted(f, lineNo, text, ok, execMsg, pre, post) ==
    IF ~ok
    THEN [f EXCEPT !.lineNo = lineNo,
                   !.failureCount = @ + 1,
                   !.msg = Append(@, Msg("\nLine %1 failed: %2", <<lineNo, execMsg>>)),
                   !.log = Append(@, LogEntry(lineNo, text, TRUE, FALSE, pre, post))]
    ELSE [f EXCEPT !.lineNo = lineNo,
                   !.successCount = @ + 1,
                   !.log = Append(@, LogEntry(lineNo, text, TRUE, TRUE, pre, post))]

\* A report that succeeds whatever the lines did.
scriptReportSucceeding(f) ==
    [ok  |-> TRUE,
     msg |-> Msg("Script executed: %1 successes, %2 failures.%3",
                 <<f.successCount, f.failureCount, f.msg>>)]

\* The end of handleExecuteFile (lines 358-360).
scriptReport(f) ==
    [ok  |-> f.failureCount = 0,
     msg |-> Msg("Script executed: %1 successes, %2 failures.%3",
                 <<f.successCount, f.failureCount, f.msg>>)]

\* What execute(cmd, msg) does when called in state st with depth frames
\* on the stack: it returns at once ("done"), or it opens a script and the
\* handler's loop starts ("open"), or the nesting exhausts the process
\* ("exhaust"); what the process does from there on is not modelled.
dispatch(cmd, st, fs, depth) ==
    IF cmd.name = Tok("execute_file")
    THEN LET o == openScript(cmd, fs) IN
         IF ~o.ok THEN [kind |-> "done", res |-> Fail(o.msg, st), path |-> o.path]
         ELSE IF depth >= MaxDepth
              THEN [kind |-> "exhaust", res |-> Fail(NoMsg, st), path |-> o.path]
              ELSE [kind |-> "open", res |-> Fail(NoMsg, st), path |-> o.path]
    ELSE [kind |-> "done", res |-> execute(cmd, st), path |-> <<>>]

\* The name a successful command registered, as a set.
createdBy(cmd, ok) ==
    IF ok /\ cmd.name \in CreateNames THEN {requireName(cmd).name} ELSE {}

Last(kind, ctx, text, cmd, pre, ok, msg, path, log, before) ==
    [kind |-> kind, ctx |-> ctx, text |-> text, cmd |-> cmd, pre |-> pre,
     ok |-> ok, msg |-> msg, path |-> path, log |-> log, before |-> before]

NoLast ==
    Last("none", "console", <<>>, EmptyCommand, State(EmptyMap, EmptyScene),
         FALSE, NoMsg, <<>>, <<>>, {})

\* MainWindow::onCommandEntered, on the text raw of the command field.
OnCommandEntered(raw) ==
    /\ stack = <<>>
    /\ ~exhausted
    /\ LET text == trimmed(raw)
           st   == State(repo, scene)
           p    == parseOf[text]
           d    == dispatch(p.cmd, st, files, Len(stack))
       IN  IF text = <<>>
           THEN /\ last' = Last("empty", "console", text, EmptyCommand, st, FALSE,
                                Msg("Empty command. Please enter a valid command.", <<>>),
                                <<>>, <<>>, created)
                /\ UNCHANGED <<repo, scene, stack, exhausted, created>>
           ELSE IF ~p.ok
           THEN /\ last' = Last("parse", "console", text, p.cmd, st, FALSE,
                                Msg("Parse error: %1", <<p.err>>), <<>>, <<>>, created)
                /\ UNCHANGED <<repo, scene, stack, exhausted, created>>
           ELSE IF d.kind = "exhaust"
           THEN /\ exhausted' = TRUE
                /\ last' = Last("exhaust", "console", text, p.cmd, st, FALSE, NoMsg,
                                d.path, <<>>, created)
                /\ UNCHANGED <<repo, scene, stack, created>>
           ELSE IF d.kind = "open"
           THEN /\ stack' = <<Frame(d.path, "console", text, p.cmd, st)>>
                /\ last' = Last("open", "console", text, p.cmd, st, FALSE, NoMsg,
                                d.path, <<>>, created)
                /\ UNCHANGED <<repo, scene, exhausted, created>>
           ELSE /\ d.res.scene.links <= MaxLinks
                /\ repo' = d.res.repo
                /\ scene' = d.res.scene
                /\ created' = created \cup createdBy(p.cmd, d.res.ok)
                /\ last' = Last("done", "console", text, p.cmd, st, d.res.ok, d.res.msg,
                                d.path, <<>>, created)
                /\ UNCHANGED <<stack, exhausted>>
    /\ UNCHANGED files

\* CommandParser::parse called on the text raw, as it is: the command
\* and the error message it leaves behind, and its result.
Parse(raw) ==
    /\ stack = <<>>
    /\ ~exhausted
    /\ LET p == parse(raw) IN
       last' = Last("parsed", "parser", raw, p.cmd, State(repo, scene), p.ok, p.err,
                    <<>>, <<>>, created)
    /\ UNCHANGED <<repo, scene, files, stack, exhausted, created>>

\* One pass of the loop of handleExecuteFile in the innermost call: read
\* a line, skip it if it is empty, else parse it and execute it.  A line
\* that is itself an execute_file with a script that opens starts a nested
\* call; the pass then ends in ScriptReturn.
ScriptLine ==
    /\ stack # <<>>
    /\ ~exhausted
    /\ LET depth  == Len(stack)
           f      == stack[depth]
           below  == SubSeq(stack, 1, depth - 1)
           lineNo == f.lineNo + 1
           text   == trimmed(files[f.path][lineNo])
           st     == State(repo, scene)
           p      == parseOf[text]
           d      == dispatch(p.cmd, st, files, depth)
       IN  /\ ~atEnd(f, files)
           /\ IF text = <<>>
              THEN /\ stack' = Append(below, [f EXCEPT !.lineNo = lineNo])
                   /\ UNCHANGED <<repo, scene, exhausted, created, last>>
              ELSE IF ~p.ok
              THEN /\ stack' = Append(below, lineParseError(f, lineNo, text, p.err, st))
                   /\ last' = Last("parse", "script", text, p.cmd, st, FALSE,
                                   p.err, <<>>, <<>>, created)
                   /\ UNCHANGED <<repo, scene, exhausted, created>>
              ELSE IF d.kind = "exhaust"
              THEN /\ exhausted' = TRUE
                   /\ last' = Last("exhaust", "script", text, p.cmd, st, FALSE, NoMsg,
                                   d.path, <<>>, created)
                   /\ UNCHANGED <<repo, scene, stack, created>>
              ELSE IF d.kind = "open"
              THEN /\ stack' = Append(Append(below, [f EXCEPT !.lineNo = lineNo]),
                                      Frame(d.path, "script", text, p.cmd, st))
                   /\ last' = Last("open", "script", text, p.cmd, st, FALSE, NoMsg,
                                   d.path, <<>>, created)
                   /\ UNCHANGED <<repo, scene, exhausted, created>>
              ELSE /\ d.res.scene.links <= MaxLinks
                   /\ repo' = d.res.repo
                   /\ scene' = d.res.scene
                   /\ created' = created \cup createdBy(p.cmd, d.res.ok)
                   /\ stack' = Append(below,
                                      lineExecuted(f, lineNo, text, d.res.ok, d.res.msg,
                                                   st.repo, d.res.repo))
                   /\ last' = Last("done", "script", text, p.cmd, st, d.res.ok,
                                   d.res.msg, d.path, <<>>, created)
                   /\ UNCHANGED exhausted
    /\ UNCHANGED files

\* The innermost handleExecuteFile has read its script to the end and
\* returns its report: to the loop of the call below it, which counts the
\* line, or to the console.
ScriptReturn ==
    /\ stack # <<>>
    /\ ~exhausted
    /\ LET depth == Len(stack)
           f     == stack[depth]
           r     == scriptReport(f)
       IN  /\ atEnd(f, files)
           /\ last' = Last("done", f.ctx, f.text, f.cmd, f.pre, r.ok, r.msg, f.path, f.log, created)
           /\ IF depth = 1
              THEN stack' = <<>>
              ELSE LET g == stack[depth - 1] IN
                   stack' = Append(SubSeq(stack, 1, depth - 2),
                                   lineExecuted(g, g.lineNo, f.text, r.ok, r.msg,
                                                f.pre.repo, repo))
    /\ UNCHANGED <<repo, scene, files, exhausted, created>>

---------------------------------------------------------------------------
(* The console specification: any console line at any time, over a fixed   *)
(* file system.                                                            *)

Init ==
    /\ repo = EmptyMap
    /\ scene = EmptyScene
    /\ files = ConsoleFiles
    /\ stack = <<>>
    /\ exhausted = FALSE
    /\ last = NoLast
    /\ created = {}

Next ==
    \/ \E raw \in ConsoleLines : OnCommandEntered(raw)
    \/ ScriptLine
    \/ ScriptReturn

Spec == Init /\ [][Next]_vars

---------------------------------------------------------------------------
(* The script specification: execute_file on scripts F1 and F2 of any      *)
(* content within the bounds.                                              *)

InitScript ==
    /\ repo = EmptyMap
    /\ scene = EmptyScene
    /\ files \in {(F1 :> s1) @@ (F2 :> s2) : s1 \in ScriptsF1, s2 \in ScriptsF2}
    /\ stack = <<>>
    /\ exhausted = FALSE
    /\ last = NoLast
    /\ created = {}

NextScript ==
    \/ \E raw \in ScriptConsoleLines : OnCommandEntered(raw)
    \/ ScriptLine
    \/ ScriptReturn

SpecScript == InitScript /\ [][NextScript]_vars

---------------------------------------------------------------------------
(* The shapes specification: one create command with coordinates, entered  *)
(* into the application as constructed.  The geometric checks of the       *)
(* create handlers read the command alone, so the first command shows      *)
(* them all; what a later command adds is the name check, which the        *)
(* console specification covers.                                           *)

InitShapes ==
    /\ repo = EmptyMap
    /\ scene = EmptyScene
    /\ files = ConsoleFiles
    /\ stack = <<>>
    /\ exhausted = FALSE
    /\ last = NoLast
    /\ created = {}

NextShapes ==
    /\ last = NoLast
    /\ \E raw \in ShapeLines : OnCommandEntered(raw)

SpecShapes == InitShapes /\ [][NextShapes]_vars

---------------------------------------------------------------------------
(* The parser specification: CommandParser::parse on one text, blank and   *)
(* ill-formed ones included.  The console and handleExecuteFile trim the   *)
(* text and drop an empty one before they call the parser; here the        *)
(* parser gets the text as it is.                                          *)

InitParse ==
    /\ repo = EmptyMap
    /\ scene = EmptyScene
    /\ files = ConsoleFiles
    /\ stack = <<>>
    /\ exhausted = FALSE
    /\ last = NoLast
    /\ created = {}

NextParse ==
    /\ last = NoLast
    /\ \E raw \in ParseInputs : Parse(raw)

SpecParse == InitParse /\ [][NextParse]_vars

---------------------------------------------------------------------------
(* Properties of the registry under console commands                      *)

DuplicateName(name) ==
    Msg("An object named '%1' already exists. Choose a unique name.", <<name>>)

\* Every entry of registry r is in registry q, bound to the same shape.
Kept(r, q) == \A n \in DOMAIN r : n \in DOMAIN q /\ q[n] = r[n]

\* The command dispatched last is an execute_file whose script is missing
\* or not named.
Unopenable(cmd, fs) ==
    /\ cmd.name = Tok("execute_file")
    /\ \/ ~contains(cmd.args, Tok("file_path"))
       \/ cmd.args[Tok("file_path")] \notin DOMAIN fs

\* The step was the return of an execute_file that had opened its script.
Returned == last.kind = "done" /\ last.path \in DOMAIN files

\* C1: a create_* command that names an object an earlier create_* command
\* registered fails with the duplicate-name message and leaves the
\* registry as it was, whatever its shape type and coordinates.
C1_DuplicateNameFails ==
    (/\ last.kind = "done"
     /\ last.cmd.name \in CreateNames
     /\ requireName(last.cmd).ok
     /\ requireName(last.cmd).name \in last.before)
    => /\ ~last.ok
       /\ last.msg = DuplicateName(requireName(last.cmd).name)
       /\ repo = last.pre.repo
       /\ created = last.before

\* A create_square with a valid diagonal was refused for the name of a
\* registered line, and the line is still what the name is bound to.
C1_Witness ==
    /\ last.kind = "done"
    /\ last.cmd.name = Tok("create_square")
    /\ DOMAIN last.cmd.coords = {CoordKey("1"), CoordKey("2")}
    /\ isValidSquareDiagonal(last.cmd.coords[CoordKey("1")], last.cmd.coords[CoordKey("2")])
    /\ ~last.ok
    /\ last.msg = DuplicateName(NameA)
    /\ NameA \in last.before
    /\ repo[NameA].kind = "line"

\* C2 as stated: after every command whose dispatch reports failure the
\* registry is the registry before the command.
C2_FailureLeavesRegistryIdentical ==
    (last.kind = "done" /\ ~last.ok) => repo = last.pre.repo

\* C2 as the code has it: a failed create_*, connect or unknown command,
\* and an execute_file that fails on its flag or on opening its file,
\* leave the registry identical; an execute_file that fails after running
\* its script keeps every entry the registry had, unchanged, and has added
\* only names that successful create_* lines registered.
C2_FailureKeepsRegistry ==
    (last.kind = "done" /\ ~last.ok)
    => /\ Kept(last.pre.repo, repo)
       /\ DOMAIN repo \subseteq created
       /\ ~Returned => repo = last.pre.repo

\* An execute_file reported failure and the registry holds an entry it
\* did not hold before.
C2_Witness ==
    /\ Returned
    /\ ~last.ok
    /\ last.pre.repo # EmptyMap
    /\ DOMAIN repo # DOMAIN last.pre.repo

\* C3: a step adds an entry to the registry only as a successful create_*
\* command, under the name of that command; every entry the registry holds
\* stays, bound to the same shape.
C3_EntriesOnlyAddedNeverChanged ==
    [][ /\ Kept(repo, repo')
        /\ DOMAIN repo' # DOMAIN repo
           => /\ last'.kind = "done"
              /\ last'.ok
              /\ last'.cmd.name \in CreateNames
              /\ DOMAIN repo' = DOMAIN repo \cup {requireName(last'.cmd).name}
              /\ requireName(last'.cmd).name \notin DOMAIN repo ]_vars

\* Two entries are registered, and the last command, a script that ran
\* create_* lines for both names again, is over.
C3_Witness ==
    /\ DOMAIN repo = {NameA, NameB}
    /\ Returned
    /\ DOMAIN last.pre.repo = {NameA, NameB}
    /\ last.path = F1
    /\ repo = last.pre.repo

\* C9: an execute_file whose file cannot be opened fails at once: no call
\* of the handler is left running lines, nothing was logged as run, the
\* registry and the scene are as before, and the message carries the
\* path; without -file_path it fails the same way.
C9_UnopenableFailsFirst ==
    /\ \A k \in 1..Len(stack) : ~Unopenable(stack[k].cmd, files)
    /\ (last.kind # "none" /\ Unopenable(last.cmd, files))
       => /\ last.kind = "done"
          /\ ~last.ok
          /\ last.log = <<>>
          /\ repo = last.pre.repo
          /\ scene = last.pre.scene
          /\ last.ctx = "console" => stack = <<>>
          /\ IF contains(last.cmd.args, Tok("file_path"))
             THEN last.msg = Msg("Failed to open script file: %1",
                                 <<last.cmd.args[Tok("file_path")]>>)
             ELSE last.msg = Msg("Missing -file_path.", <<>>)

\* execute_file -file_path FX, with no file FX, was refused while the
\* registry held an entry.
C9_Witness ==
    /\ last.kind = "done"
    /\ Unopenable(last.cmd, files)
    /\ contains(last.cmd.args, Tok("file_path"))
    /\ last.cmd.args[Tok("file_path")] = FX
    /\ ~last.ok
    /\ repo # EmptyMap

---------------------------------------------------------------------------
(* Properties of execute_file                                             *)

\* The line is empty after trimming.
IsBlank(line) == trimmed(line) = <<>>

\* The first character of the line that is not a space is '#'.
IsComment(line) == ~IsBlank(line) /\ Head(trimmed(line)) = "#"

\* The numbers of the first upto lines that are not blank.
NonBlank(lines, upto) == {i \in 1..upto : ~IsBlank(lines[i])}

\* The log holds one entry for each non-blank line among the first upto
\* lines, in file order, and each entry started from the registry the
\* entry before it left (the first from registry r).
LogFollows(log, lines, upto, r) ==
    /\ {log[k].lineNo : k \in 1..Len(log)} = NonBlank(lines, upto)
    /\ \A k \in 1..Len(log) : log[k].text = trimmed(lines[log[k].lineNo])
    /\ \A k \in 1..(Len(log) - 1) :
          /\ log[k].lineNo < log[k + 1].lineNo
          /\ log[k + 1].pre = log[k].post
    /\ log # <<>> => log[1].pre = r

\* The registry the log ends in, starting from registry r.
LogEnd(log, r) == IF log = <<>> THEN r ELSE log[Len(log)].post

\* C4: every running execute_file has handled the lines before its
\* position in file order, failed lines or not, each on the registry the
\* lines before it left; when it returns it has handled every line of the
\* file and the registry is the one its last line left.
C4_LinesInOrderPastFailures ==
    /\ \A k \in 1..Len(stack) :
          LogFollows(stack[k].log, files[stack[k].path],
                     IF k = Len(stack) THEN stack[k].lineNo ELSE stack[k].lineNo - 1,
                     stack[k].pre.repo)
    /\ Returned
       => /\ LogFollows(last.log, files[last.path], Len(files[last.path]),
                        last.pre.repo)
          /\ repo = LogEnd(last.log, last.pre.repo)

\* A script returned in which a line failed and the next line succeeded,
\* on a registry that a line before the failed one had changed.
C4_Witness ==
    /\ Returned
    /\ \E k \in 1..(Len(last.log) - 1) :
          /\ ~last.log[k].ok
          /\ last.log[k + 1].ok
          /\ last.log[k + 1].pre # last.pre.repo
          /\ last.log[k + 1].post # last.log[k + 1].pre

\* C5: an execute_file that opened its script reports failure exactly
\* when one of its attempted lines, those that are neither blank nor
\* comments, failed.
C5_FailureIffAttemptedLineFailed ==
    Returned
    => (~last.ok <=> \E k \in 1..Len(last.log) :
                        /\ ~IsComment(last.log[k].text)
                        /\ ~last.log[k].ok)

\* C6: the counts of the report add up to the number of attempted lines,
\* those that are neither blank nor comments; the failure count is the
\* number of them that failed, with one message each.
C6_CountsAttemptedLines ==
    Returned
    => LET lines     == files[last.path]
           attempted == {i \in 1..Len(lines) : ~IsBlank(lines[i]) /\ ~IsComment(lines[i])}
           failed    == {k \in 1..Len(last.log) :
                            ~IsComment(last.log[k].text) /\ ~last.log[k].ok}
       IN  /\ last.msg.args[1] + last.msg.args[2] = Cardinality(attempted)
           /\ last.msg.args[2] = Cardinality(failed)
           /\ Len(last.msg.args[3]) = Cardinality(failed)

\* C7: no line whose first non-space character is '#' is handed to the
\* parser by a running or a returned execute_file.
C7_CommentLinesSkipped ==
    /\ \A k \in 1..Len(stack) :
          \A j \in 1..Len(stack[k].log) : ~IsComment(stack[k].log[j].text)
    /\ \A j \in 1..Len(last.log) : ~IsComment(last.log[j].text)

\* The outcome of a line typed at the console on registry r, as
\* MainWindow::onCommandEntered gets it from parse and then execute, and
\* of the lines of a script submitted that way one after the other from
\* line i on.  skipComments tells whether the comment lines of the script
\* are left out, as its blank lines are.  fuel bounds the nesting; done is
\* FALSE when it is used up.
RECURSIVE consoleSubmit(_, _, _, _), submitLines(_, _, _, _, _, _)
consoleSubmit(fs, text, r, fuel) ==
    LET p == parseOf[text] IN
    IF ~p.ok THEN [done |-> TRUE, ok |-> FALSE, repo |-> r]
    ELSE IF p.cmd.name = Tok("execute_file")
    THEN IF Unopenable(p.cmd, fs) THEN [done |-> TRUE, ok |-> FALSE, repo |-> r]
         ELSE IF fuel = 0 THEN [done |-> FALSE, ok |-> FALSE, repo |-> r]
         ELSE LET run == submitLines(fs, fs[p.cmd.args[Tok("file_path")]], 1, r,
                                     FALSE, fuel - 1)
              IN  [done |-> run.done,
                   ok   |-> \A k \in 1..Len(run.outcomes) : run.outcomes[k],
                   repo |-> run.repo]
    ELSE LET res == execute(p.cmd, State(r, EmptyScene))
         IN  [done |-> TRUE, ok |-> res.ok, repo |-> res.repo]

submitLines(fs, lines, i, r, skipComments, fuel) ==
    IF i > Len(lines) THEN [done |-> TRUE, outcomes |-> <<>>, repo |-> r]
    ELSE IF IsBlank(lines[i]) \/ (skipComments /\ IsComment(lines[i]))
    THEN submitLines(fs, lines, i + 1, r, skipComments, fuel)
    ELSE LET one  == consoleSubmit(fs, trimmed(lines[i]), r, fuel)
             rest == submitLines(fs, lines, i + 1, one.repo, skipComments, fuel)
         IN  IF ~one.done THEN [done |-> FALSE, outcomes |-> <<>>, repo |-> r]
             ELSE [done     |-> rest.done,
                   outcomes |-> <<one.ok>> \o rest.outcomes,
                   repo     |-> rest.repo]

\* The outcomes the log recorded, for all its lines or for those that are
\* not comments.
RECURSIVE logOutcomes(_, _)
logOutcomes(log, skipComments) ==
    IF log = <<>> THEN <<>>
    ELSE IF skipComments /\ IsComment(Head(log).text)
    THEN logOutcomes(Tail(log), skipComments)
    ELSE <<Head(log).ok>> \o logOutcomes(Tail(log), skipComments)

\* The returned execute_file agrees with the console on the lines of its
\* script: same registry at the end, same outcome line by line.
AgreesWithConsole(skipComments) ==
    LET run == submitLines(files, files[last.path], 1, last.pre.repo,
                           skipComments, MaxDepth)
    IN  /\ run.done
        /\ run.repo = repo
        /\ run.outcomes = logOutcomes(last.log, skipComments)

\* C8: when an execute_file returns, the registry and the outcome of each
\* line are those of submitting the lines of the script one by one at the
\* console, in order, the skipped lines left out (blank lines, and comment
\* lines or not).
C8_ScriptEqualsConsoleLines ==
    Returned => AgreesWithConsole(TRUE) /\ AgreesWithConsole(FALSE)

\* A script returned that holds a nested execute_file, a failed line and
\* a line that added an entry.
C8_Witness ==
    /\ Returned
    /\ \E k \in 1..Len(last.log) :
          parseOf[last.log[k].text].cmd.name = Tok("execute_file")
    /\ \E k \in 1..Len(last.log) : ~last.log[k].ok
    /\ DOMAIN repo # DOMAIN last.pre.repo

\* C10: no execute_file on a script of the file system nests until the
\* process is exhausted: every one runs to its report.
C10_ScriptRunsToCompletion == ~exhausted

\* The entry of the log is a line that failed.
IsFailed(e) == ~e.ok

\* The failed lines of the script that returned, in order, and the
\* failure entries of its report.
FailedLines == SelectSeq(last.log, IsFailed)

FailureEntries == last.msg.args[3]

\* C11 as stated: two failed occurrences of the same line in one script
\* have identical failure entries in the report.
C11_RepeatedFailureEntriesIdentical ==
    Returned
    => /\ Len(FailureEntries) = Len(FailedLines)
       /\ \A i, j \in 1..Len(FailedLines) :
             FailedLines[i].text = FailedLines[j].text
             => FailureEntries[i] = FailureEntries[j]

\* C11 as the code has it: every failed line has its own failure entry,
\* which carries the number of the line; the entries of two occurrences
\* of a line that does not parse are the same apart from that number; and
\* no line that failed to parse, or failed in a handler other than
\* execute_file, changed the registry.
C11_RepeatedFailureEntriesNumbered ==
    Returned
    => /\ Len(FailureEntries) = Len(FailedLines)
       /\ \A i \in 1..Len(FailedLines) :
             /\ FailureEntries[i].args[1] = FailedLines[i].lineNo
             /\ (~FailedLines[i].parsed
                 \/ parseOf[FailedLines[i].text].cmd.name # Tok("execute_file"))
                => FailedLines[i].post = FailedLines[i].pre
       /\ \A i, j \in 1..Len(FailedLines) :
             (FailedLines[i].text = FailedLines[j].text /\ ~FailedLines[i].parsed)
             => /\ ~FailedLines[j].parsed
                /\ FailureEntries[i].text = FailureEntries[j].text
                /\ FailureEntries[i].args[2] = FailureEntries[j].args[2]

\* A script returned in which the same unparsable line failed twice, with
\* a line between the two that added an entry to the registry.
C11_Witness ==
    /\ Returned
    /\ \E i, j \in 1..Len(last.log) :
          /\ i + 1 < j
          /\ ~last.log[i].parsed
          /\ last.log[j].text = last.log[i].text
          /\ last.log[i + 1].post # last.log[i + 1].pre
          /\ repo = last.log[i + 1].post

\* C12: an execute_file that returns from a script with no attempted
\* line, all its lines being blank or comments, reports success with zero
\* successes and zero failures and leaves the registry as it was.
C12_NothingAttemptedSucceeds ==
    (/\ Returned
     /\ \A i \in 1..Len(files[last.path]) :
           IsBlank(files[last.path][i]) \/ IsComment(files[last.path][i]))
    => /\ last.ok
       /\ last.msg.args[1] = 0
       /\ last.msg.args[2] = 0
       /\ repo = last.pre.repo

---------------------------------------------------------------------------
(* Properties of connect and of the create handlers                       *)

\* The command dispatched last, outside execute_file itself, is cmdName.
Dispatched(cmdName) == last.kind = "done" /\ last.cmd.name = Tok(cmdName)

\* The command carries both object names of connect.
HasBothNames(cmd) ==
    contains(cmd.args, Tok("object_name_1")) /\ contains(cmd.args, Tok("object_name_2"))

\* C13: a connect without one of its two flags fails, and a connect one of
\* whose names is not registered fails with the not-found message; either
\* way the scene and the registry are as they were.
C13_ConnectUnresolvedFails ==
    Dispatched("connect")
    => IF ~HasBothNames(last.cmd)
       THEN /\ ~last.ok
            /\ last.msg = Msg("Missing -object_name_1 or -object_name_2.", <<>>)
            /\ scene = last.pre.scene
            /\ repo = last.pre.repo
       ELSE (\/ last.cmd.args[Tok("object_name_1")] \notin DOMAIN last.pre.repo
             \/ last.cmd.args[Tok("object_name_2")] \notin DOMAIN last.pre.repo)
            => /\ ~last.ok
               /\ last.msg = Msg("One or both objects not found.", <<>>)
               /\ scene = last.pre.scene
               /\ repo = last.pre.repo

\* A connect of a registered object to a name that is not registered was
\* refused.
C13_Witness ==
    /\ Dispatched("connect")
    /\ HasBothNames(last.cmd)
    /\ last.cmd.args[Tok("object_name_1")] \in DOMAIN last.pre.repo
    /\ last.cmd.args[Tok("object_name_2")] \notin DOMAIN last.pre.repo
    /\ ~last.ok

\* C14: a connect that succeeds leaves the registry as it was: the same
\* names, bound to the same shapes; what it adds is a line of the scene.
C14_ConnectKeepsRegistry ==
    (Dispatched("connect") /\ last.ok)
    => /\ repo = last.pre.repo
       /\ created = last.before
       /\ scene.items = last.pre.scene.items
       /\ scene.links = last.pre.scene.links + 1

\* Two registered objects were connected.
C14_Witness ==
    /\ Dispatched("connect")
    /\ last.ok
    /\ DOMAIN repo = {NameA, NameB}
    /\ scene.links > 0

\* The command dispatched last is a create_* command.
DispatchedCreate == last.kind = "done" /\ last.cmd.name \in CreateNames

\* The command with its -name replaced by a blank.
WithBlankName(cmd) == [cmd EXCEPT !.args = insert(@, Tok("name"), <<" ">>)]

\* C15: a create_* command without -name fails with the missing-name
\* message, one whose name is empty after trimming with the empty-name
\* message, one whose name is registered with the duplicate-name message,
\* whatever coordinates it carries; the registry is left as it was.
C15_NameErrorsFirst ==
    DispatchedCreate
    => /\ ~contains(last.cmd.args, Tok("name"))
          => /\ ~last.ok
             /\ last.msg = Msg("Missing -name flag.", <<>>)
             /\ repo = last.pre.repo
       /\ (contains(last.cmd.args, Tok("name"))
           /\ trimmed(last.cmd.args[Tok("name")]) = <<>>)
          => /\ ~last.ok
             /\ last.msg = Msg("Name cannot be empty.", <<>>)
             /\ repo = last.pre.repo
       /\ (contains(last.cmd.args, Tok("name"))
           /\ trimmed(last.cmd.args[Tok("name")]) \in DOMAIN last.pre.repo)
          => /\ ~last.ok
             /\ last.msg = DuplicateName(trimmed(last.cmd.args[Tok("name")]))
             /\ repo = last.pre.repo
       /\ execute(WithBlankName(last.cmd), last.pre)
             = Fail(Msg("Name cannot be empty.", <<>>), last.pre)

\* A create_triangle without -name whose three vertices are on one line
\* was refused for the name.
C15_Witness ==
    /\ DispatchedCreate
    /\ last.cmd.name = Tok("create_triangle")
    /\ ~contains(last.cmd.args, Tok("name"))
    /\ DOMAIN last.cmd.coords = {CoordKey("1"), CoordKey("2"), CoordKey("3")}
    /\ areCollinear(last.cmd.coords[CoordKey("1")], last.cmd.coords[CoordKey("2")],
                    last.cmd.coords[CoordKey("3")])
    /\ last.msg = Msg("Missing -name flag.", <<>>)

---------------------------------------------------------------------------
(* Properties of the geometric checks *)

\* The command names an object that can be registered: -name is there,
\* not blank, and not in registry r.
NamesNewObject(cmd, r) ==
    /\ contains(cmd.args, Tok("name"))
    /\ trimmed(cmd.args[Tok("name")]) # <<>>
    /\ trimmed(cmd.args[Tok("name")]) \notin DOMAIN r

\* The command carries -coord_1 .. -coord_n.
HasCoords(cmd, n) ==
    \A k \in 1..n : contains(cmd.coords, CoordKey(<<"1", "2", "3", "4">>[k]))

\* Point k of the command dispatched last.
Vertex(k) == last.cmd.coords[CoordKey(<<"1", "2", "3", "4">>[k])]

\* Twice the signed area of the triangle a, b, c.
doubledArea(a, b, c) ==
    a[1] * (b[2] - c[2]) + b[1] * (c[2] - a[2]) + c[1] * (a[2] - b[2])

\* C16: a create_triangle with a new name and three vertices succeeds and
\* registers the triangle exactly when the vertices span an area; when
\* they are on one line, coincident ones included, it fails with the
\* collinear message and neither the registry nor the scene changes.
C16_TriangleIffNotCollinear ==
    (Dispatched("create_triangle") /\ NamesNewObject(last.cmd, last.pre.repo)
     /\ HasCoords(last.cmd, 3))
    => LET name == trimmed(last.cmd.args[Tok("name")]) IN
       IF doubledArea(Vertex(1), Vertex(2), Vertex(3)) = 0
       THEN /\ ~last.ok
            /\ last.msg = Msg("Triangle vertices are collinear. Provide non-collinear points.",
                              <<>>)
            /\ repo = last.pre.repo
            /\ scene = last.pre.scene
       ELSE /\ last.ok
            /\ DOMAIN repo = DOMAIN last.pre.repo \cup {name}
            /\ Kept(last.pre.repo, repo)
            /\ repo[name] = TriangleShape(name, Vertex(1), Vertex(2), Vertex(3))

\* A triangle two of whose vertices coincide was refused as collinear.
C16_Witness ==
    /\ Dispatched("create_triangle")
    /\ NamesNewObject(last.cmd, last.pre.repo)
    /\ HasCoords(last.cmd, 3)
    /\ Vertex(1) = Vertex(2)
    /\ Vertex(3) # Vertex(1)
    /\ ~last.ok
    /\ repo = last.pre.repo

\* The orders of three arguments.
Orders3 == {f \in [1..3 -> 1..3] : \A i, j \in 1..3 : f[i] = f[j] => i = j}

\* C17: areCollinear(a, b, c) is true exactly when the cross product of
\* b - a and c - a is zero, which is when the triangle has no area; it is
\* true of (0,0), (1,1), (2,2) and false of (0,0), (1,0), (0,1); and the
\* order of the three arguments does not change it.
C17_CollinearIsZeroCross ==
    /\ areCollinear(<<0, 0>>, <<Scale, Scale>>, <<2 * Scale, 2 * Scale>>)
    /\ ~areCollinear(<<0, 0>>, <<Scale, 0>>, <<0, Scale>>)
    /\ (Dispatched("create_triangle") /\ HasCoords(last.cmd, 3))
       => LET a == Vertex(1)
              b == Vertex(2)
              c == Vertex(3)
          IN  /\ areCollinear(a, b, c)
                 <=> (b[1] - a[1]) * (c[2] - a[2]) - (b[2] - a[2]) * (c[1] - a[1]) = 0
              /\ areCollinear(a, b, c) <=> doubledArea(a, b, c) = 0
              /\ \A f \in Orders3 :
                    areCollinear(Vertex(f[1]), Vertex(f[2]), Vertex(f[3]))
                    <=> areCollinear(a, b, c)

\* The vertices (1,1), (0,0), (2,2), on one line that the first of them
\* is in the middle of, were refused as collinear.
C17_Witness ==
    /\ Dispatched("create_triangle")
    /\ HasCoords(last.cmd, 3)
    /\ Vertex(1) = <<Scale, Scale>>
    /\ Vertex(2) = <<0, 0>>
    /\ Vertex(3) = <<2 * Scale, 2 * Scale>>
    /\ ~last.ok
    /\ last.msg = Msg("Triangle vertices are collinear. Provide non-collinear points.", <<>>)

\* The four points are the corners of a square with a side: from each of
\* them two of the others are one side away and the third is across the
\* diagonal, whose square is twice the side's.
IsSquareOf(p) ==
    \E k \in 2..4 :
        LET s == dist2(p[1], p[k]) IN
        /\ s > 0
        /\ \A i \in 1..4 :
              /\ Cardinality({j \in 1..4 \ {i} : dist2(p[i], p[j]) = s}) = 2
              /\ Cardinality({j \in 1..4 \ {i} : dist2(p[i], p[j]) = 2 * s}) = 1

\* The four vertices of the command dispatched last.
Vertices == <<Vertex(1), Vertex(2), Vertex(3), Vertex(4)>>

\* C18: isSquare is true of the four corners of a square and false of
\* other points, the corners of a rectangle with unequal sides among them;
\* create_square with four vertices succeeds for the former only.
C18_SquareRejectsRectangle ==
    (Dispatched("create_square") /\ NamesNewObject(last.cmd, last.pre.repo)
     /\ HasCoords(last.cmd, 4))
    => /\ isSquare(Vertex(1), Vertex(2), Vertex(3), Vertex(4)) <=> IsSquareOf(Vertices)
       /\ last.ok <=> IsSquareOf(Vertices)

\* C19: create_rectangle with a new name and fewer than four coordinates
\* takes coord_1 and coord_2 for a diagonal; it fails with the diagonal
\* message, changing neither registry nor scene, when the two have the
\* same x or the same y, and otherwise registers the rectangle they span.
C19_DiagonalDiffersInBoth ==
    (Dispatched("create_rectangle") /\ NamesNewObject(last.cmd, last.pre.repo)
     /\ ~HasCoords(last.cmd, 4) /\ HasCoords(last.cmd, 2))
    => LET name == trimmed(last.cmd.args[Tok("name")]) IN
       IF Vertex(1)[1] = Vertex(2)[1] \/ Vertex(1)[2] = Vertex(2)[2]
       THEN /\ ~last.ok
            /\ last.msg = Msg("Diagonal points must differ in both x and y for a valid rectangle.",
                              <<>>)
            /\ repo = last.pre.repo
            /\ scene = last.pre.scene
       ELSE /\ last.ok
            /\ DOMAIN repo = DOMAIN last.pre.repo \cup {name}
            /\ Kept(last.pre.repo, repo)
            /\ repo[name] = RectangleShapeDiagonal(name, Vertex(1), Vertex(2))

\* The diagonal {0,0}, {3,0}, flat on the x axis, was refused.
C19_Witness ==
    /\ Dispatched("create_rectangle")
    /\ NamesNewObject(last.cmd, last.pre.repo)
    /\ DOMAIN last.cmd.coords = {CoordKey("1"), CoordKey("2")}
    /\ Vertex(1) = <<0, 0>>
    /\ Vertex(2) = <<3 * Scale, 0>>
    /\ ~last.ok
    /\ repo = last.pre.repo

\* The four points are the corners of a rectangle with an area: taken in
\* some order a, b, c, d, the sides a-b and a-d have a length and are
\* perpendicular, and c is across the diagonal from a.
IsRectangleOf(p) ==
    \E f \in Orders4 :
        LET a == p[f[1]]
            b == p[f[2]]
            c == p[f[3]]
            d == p[f[4]]
        IN  /\ a # b
            /\ a # d
            /\ dot(sub(b, a), sub(d, a)) = 0
            /\ c = <<b[1] + d[1] - a[1], b[2] + d[2] - a[2]>>

\* C20: create_rectangle with a new name and four corners succeeds only
\* for the four corners of a rectangle with an area; for any other four
\* points, repeated ones included, it fails and registers nothing.
C20_FourCornersOfRectangle ==
    (Dispatched("create_rectangle") /\ NamesNewObject(last.cmd, last.pre.repo)
     /\ HasCoords(last.cmd, 4))
    => /\ last.ok => IsRectangleOf(Vertices)
       /\ ~IsRectangleOf(Vertices)
          => /\ last.msg = Msg("Provided corners do not form a rectangle.", <<>>)
             /\ repo = last.pre.repo

\* C21: isRectangle gives the same answer for the four points in every
\* order of its arguments, and create_rectangle with four corners succeeds
\* exactly when that answer is yes.
C21_RectangleAnyOrder ==
    (Dispatched("create_rectangle") /\ HasCoords(last.cmd, 4))
    => /\ \A f \in Orders4 :
             isRectangle(Vertex(f[1]), Vertex(f[2]), Vertex(f[3]), Vertex(f[4]))
             <=> isRectangle(Vertex(1), Vertex(2), Vertex(3), Vertex(4))
       /\ NamesNewObject(last.cmd, last.pre.repo)
          => (last.ok <=> isRectangle(Vertex(1), Vertex(2), Vertex(3), Vertex(4)))

\* The corners (0,0), (2,0), (2,2), (0,2), given in drawing order, which
\* is not the order isRectangle sorts them into, were accepted.
C21_Witness ==
    /\ Dispatched("create_rectangle")
    /\ HasCoords(last.cmd, 4)
    /\ Vertices = <<<<0, 0>>, <<2 * Scale, 0>>, <<2 * Scale, 2 * Scale>>, <<0, 2 * Scale>>>>
    /\ sortPoints(Vertices) # Vertices
    /\ last.ok

\* C22: isRectangle is true of the four corners of every rectangle with an
\* area, its sides along the axes or not, in every order of the arguments;
\* create_rectangle then succeeds in its four-corner mode.
C22_RectanglesAccepted ==
    (Dispatched("create_rectangle") /\ HasCoords(last.cmd, 4) /\ IsRectangleOf(Vertices))
    => /\ \A f \in Orders4 :
             isRectangle(Vertex(f[1]), Vertex(f[2]), Vertex(f[3]), Vertex(f[4]))
       /\ NamesNewObject(last.cmd, last.pre.repo)
          => /\ last.ok
             /\ last.msg = Msg("Rectangle '%1' created from four corners.",
                               <<trimmed(last.cmd.args[Tok("name")])>>)

\* A rectangle with sides 1 and 2 along the diagonals of the grid, no side
\* of it along an axis, was accepted.
C22_Witness ==
    /\ Dispatched("create_rectangle")
    /\ HasCoords(last.cmd, 4)
    /\ {Vertex(k) : k \in 1..4}
          = {<<0, Scale>>, <<Scale, 0>>, <<3 * Scale, 2 * Scale>>, <<2 * Scale, 3 * Scale>>}
    /\ IsRectangleOf(Vertices)
    /\ last.ok

\* C23: create_square with a new name and fewer than four coordinates
\* takes coord_1 and coord_2 for a diagonal; it fails with the diagonal
\* message, changing neither registry nor scene, when the two are the same
\* point, and otherwise registers the square, also when they have the
\* same x or the same y.
C23_SquareDiagonalDistinct ==
    (Dispatched("create_square") /\ NamesNewObject(last.cmd, last.pre.repo)
     /\ ~HasCoords(last.cmd, 4) /\ HasCoords(last.cmd, 2))
    => LET name == trimmed(last.cmd.args[Tok("name")]) IN
       IF Vertex(1) = Vertex(2)
       THEN /\ ~last.ok
            /\ last.msg = Msg("Diagonal points do not define a valid square.", <<>>)
            /\ repo = last.pre.repo
            /\ scene = last.pre.scene
       ELSE /\ last.ok
            /\ DOMAIN repo = DOMAIN last.pre.repo \cup {name}
            /\ Kept(last.pre.repo, repo)
            /\ repo[name] = SquareShapeDiagonal(name, Vertex(1), Vertex(2))

\* The diagonal {0,0}, {3,0}, along the x axis, gave a square.
C23_Witness ==
    /\ Dispatched("create_square")
    /\ DOMAIN last.cmd.coords = {CoordKey("1"), CoordKey("2")}
    /\ Vertex(1) = <<0, 0>>
    /\ Vertex(2) = <<3 * Scale, 0>>
    /\ last.ok
    /\ repo # last.pre.repo

\* The messages of the four-corner mode and of the diagonal mode.
FourCornerMessages(name) ==
    { Msg("Provided corners do not form a rectangle.", <<>>),
      Msg("Rectangle '%1' created from four corners.", <<name>>),
      Msg("Provided vertices do not form a square.", <<>>),
      Msg("Square '%1' created from four vertices.", <<name>>) }

DiagonalMessages(name) ==
    { Msg("Missing -%1 coordinate.", <<CoordKey("1")>>),
      Msg("Missing -%1 coordinate.", <<CoordKey("2")>>),
      Msg("Diagonal points must differ in both x and y for a valid rectangle.", <<>>),
      Msg("Rectangle '%1' created from diagonal points.", <<name>>),
      Msg("Diagonal points do not define a valid square.", <<>>),
      Msg("Square '%1' created from diagonal points.", <<name>>) }

\* C24: create_rectangle and create_square with a new name answer in the
\* four-corner mode when coord_1 .. coord_4 are all there and in the
\* diagonal mode when one of them is not; on success the message says
\* which, and the shape registered is the one that mode builds.
C24_FourCornerModeIffAllFour ==
    ((Dispatched("create_rectangle") \/ Dispatched("create_square"))
     /\ NamesNewObject(last.cmd, last.pre.repo))
    => LET name == trimmed(last.cmd.args[Tok("name")])
           rect == Dispatched("create_rectangle")
       IN  IF HasCoords(last.cmd, 4)
           THEN /\ last.msg \in FourCornerMessages(name)
                /\ last.ok
                   => /\ last.msg = Msg(IF rect THEN "Rectangle '%1' created from four corners."
                                        ELSE "Square '%1' created from four vertices.",
                                        <<name>>)
                      /\ repo[name] = IF rect THEN RectangleShapePoints(name, Vertices)
                                      ELSE SquareShapeVertices(name, Vertices)
           ELSE /\ last.msg \in DiagonalMessages(name)
                /\ last.ok
                   => /\ last.msg = Msg(IF rect
                                        THEN "Rectangle '%1' created from diagonal points."
                                        ELSE "Square '%1' created from diagonal points.",
                                        <<name>>)
                      /\ repo[name] = IF rect
                                      THEN RectangleShapeDiagonal(name, Vertex(1), Vertex(2))
                                      ELSE SquareShapeDiagonal(name, Vertex(1), Vertex(2))

\* A create_rectangle with coord_1, coord_2 and coord_4 but no coord_3
\* built the rectangle of the diagonal.
C24_Witness ==
    /\ Dispatched("create_rectangle")
    /\ DOMAIN last.cmd.coords = {CoordKey("1"), CoordKey("2"), CoordKey("4")}
    /\ last.ok
    /\ last.msg = Msg("Rectangle '%1' created from diagonal points.", <<NameA>>)

---------------------------------------------------------------------------
(* Properties of the dispatch and of the parser *)

\* The names CommandDispatcher::execute knows.
KnownNames == CreateNames \cup {Tok("connect"), Tok("execute_file")}

\* C25: a command whose name is none of the six known names fails with the
\* unknown-command message that quotes the name, and leaves registry and
\* scene as they were; a command with a known name never gets that
\* message.
C25_UnknownCommandRejected ==
    last.kind = "done"
    => IF last.cmd.name \notin KnownNames
       THEN /\ ~last.ok
            /\ last.msg = Msg("Unknown command '%1'.", <<last.cmd.name>>)
            /\ repo = last.pre.repo
            /\ scene = last.pre.scene
            /\ created = last.before
       ELSE last.msg.text # "Unknown command '%1'."

\* create_lines, with the arguments of a valid create_line, was refused
\* as unknown.
C25_Witness ==
    /\ last.kind = "done"
    /\ last.cmd.name = <<"create_line", "s">>
    /\ HasCoords(last.cmd, 2)
    /\ contains(last.cmd.args, Tok("name"))
    /\ ~last.ok
    /\ last.msg = Msg("Unknown command '%1'.", <<<<"create_line", "s">>>>)

\* The step was a call of the parser alone.
Parsed == last.kind = "parsed"

\* The text up to its first blank.
RECURSIVE firstWord(_)
firstWord(t) ==
    IF t = <<>> \/ Head(t) \in WS THEN <<>> ELSE <<Head(t)>> \o firstWord(Tail(t))

\* The words of the text: what stands between its blanks.
RECURSIVE words(_)
words(t) ==
    LET u == trimLeft(t)
        w == firstWord(u)
    IN  IF u = <<>> THEN <<>> ELSE <<w>> \o words(SubSeq(u, Len(w) + 1, Len(u)))

\* C26: parse fails with the no-tokens message exactly on the texts that
\* hold nothing but blanks, the empty text among them; on every other
\* text the command it leaves has the first token for its name, which is
\* not empty, whether or not the rest of the text parses.
C26_NoTokensOrNamed ==
    Parsed
    => IF \A i \in 1..Len(last.text) : last.text[i] \in WS
       THEN /\ ~last.ok
            /\ last.msg = Msg("No tokens found in the command.", <<>>)
       ELSE /\ last.cmd.name = firstWord(trimLeft(last.text))
            /\ last.cmd.name # <<>>
            /\ last.msg.text \notin {"No tokens found in the command.",
                                     "Command name is empty."}

\* A text of two blanks was refused for holding no tokens.
C26_Witness ==
    /\ Parsed
    /\ last.text = <<" ", " ">>
    /\ ~last.ok
    /\ last.msg = Msg("No tokens found in the command.", <<>>)

\* The tokens of the text after the command name.
Arguments == Tail(words(last.text))

\* The places of the flags in a sequence of flag/value pairs.
FlagPositions(a) == {i \in 1..Len(a) : i % 2 = 1}

\* Up to place n the tokens are pairs of a flag and its value, a
\* coordinate flag with a value parseCoords takes.
PairsFine(a, n) ==
    \A i \in FlagPositions(a) :
        i < n => /\ startsWithDash(a[i])
                 /\ startsWithDashCoord(a[i]) => parseCoords(a[i + 1]).ok

\* C27: after the command name the text is read as pairs of a flag and
\* its value.  A token where a flag is due that does not begin with '-'
\* makes parse fail; when the pairs before it are in order the message is
\* the unexpected-token one, quoting that token.  What parse accepts is
\* pairs throughout: no token stands alone.
C27_FlagValuePairsOnly ==
    (Parsed /\ words(last.text) # <<>>)
    => LET a == Arguments IN
       /\ \A i \in FlagPositions(a) :
             ~startsWithDash(a[i])
             => /\ ~last.ok
                /\ PairsFine(a, i)
                   => last.msg = Msg("Unexpected token '%1'. Flags should start with '-'.",
                                     <<a[i]>>)
       /\ last.ok
          => /\ Len(a) % 2 = 0
             /\ \A i \in FlagPositions(a) : startsWithDash(a[i])
             /\ DOMAIN last.cmd.args \cup DOMAIN last.cmd.coords
                   = {mid1(a[i]) : i \in FlagPositions(a)}

\* In create_line -name A A the second A, where a flag is due, was
\* refused as unexpected.
C27_Witness ==
    /\ Parsed
    /\ words(last.text) = <<Tok("create_line"), Flag("name"), NameA, NameA>>
    /\ ~last.ok
    /\ last.msg = Msg("Unexpected token '%1'. Flags should start with '-'.", <<NameA>>)

\* C28: when the text ends in a flag that has no value after it, the
\* pairs before it being in order, parse fails: with the
\* expected-coordinate message quoting the flag when the flag begins with
\* -coord_, and with the expected-value message quoting it otherwise.
C28_FlagWithoutValue ==
    (Parsed /\ words(last.text) # <<>>)
    => LET a == Arguments
           n == Len(a)
       IN  (n % 2 = 1 /\ startsWithDash(a[n]))
           => /\ ~last.ok
              /\ PairsFine(a, n)
                 => last.msg = Msg(IF startsWithDashCoord(a[n])
                                   THEN "Expected coordinate after '%1'."
                                   ELSE "Expected value after flag '%1'.", <<a[n]>>)

\* In create_line -name A -coord_1 the coordinate flag at the end was
\* found to lack its coordinate.
C28_Witness ==
    /\ Parsed
    /\ words(last.text) = <<Tok("create_line"), Flag("name"), NameA, CoordFlag("1")>>
    /\ ~last.ok
    /\ last.msg = Msg("Expected coordinate after '%1'.", <<CoordFlag("1")>>)

\* At place i of the arguments stands a coordinate flag, and after it a
\* token that opens a brace and does not close it: the coordinate was
\* written with a blank inside its braces.
SpacedCoordinateAt(a, i) ==
    /\ i \in FlagPositions(a)
    /\ startsWithDashCoord(a[i])
    /\ i + 1 <= Len(a)
    /\ Head(a[i + 1]) = "{"
    /\ \A k \in 1..Len(a[i + 1]) : a[i + 1][k] # "}"

\* The error of the parser in the step: the console puts "Parse error: "
\* before it.
ParserError == IF last.kind = "parse" /\ last.ctx = "console" THEN last.msg.args[1] ELSE last.msg

\* C29: a text in which a coordinate is written with a blank inside its
\* braces is refused by the parser (from the console and from a script
\* nothing is executed, and the registry stays as it was); when the pairs
\* before the coordinate are in order, the message is the
\* invalid-coordinate one, quoting the part of the coordinate before the
\* blank.
C29_SpacedCoordinateRejected ==
    (last.kind \in {"parsed", "parse", "done", "open", "exhaust"}
     /\ words(last.text) # <<>>
     /\ \E i \in 1..Len(Arguments) : SpacedCoordinateAt(Arguments, i))
    => /\ last.kind \in {"parsed", "parse"}
       /\ ~last.ok
       /\ repo = last.pre.repo
       /\ scene = last.pre.scene
       /\ \A i \in 1..Len(Arguments) :
             (SpacedCoordinateAt(Arguments, i) /\ PairsFine(Arguments, i))
             => ParserError = Msg("Invalid coordinate format '%1'. Expected {x,y}.",
                                  <<Arguments[i + 1]>>)

\* create_line -coord_1 {0, 0} was refused for the coordinate '{0,'.
C29_Witness ==
    /\ Parsed
    /\ words(last.text) = <<Tok("create_line"), CoordFlag("1"), <<"{", "0", ",">>, <<"0", "}">>>>
    /\ ~last.ok
    /\ last.msg = Msg("Invalid coordinate format '%1'. Expected {x,y}.", <<<<"{", "0", ",">>>>)

\* The text without the blanks between '{' and '}'.
RECURSIVE unspace(_, _)
unspace(t, inside) ==
    IF t = <<>> THEN <<>>
    ELSE IF inside /\ Head(t) \in WS THEN unspace(Tail(t), inside)
    ELSE <<Head(t)>> \o unspace(Tail(t), IF Head(t) = "{" THEN TRUE
                                         ELSE IF Head(t) = "}" THEN FALSE ELSE inside)

\* C30: a text in which a coordinate is written with blanks inside its
\* braces parses as the text without those blanks does: when that one is
\* accepted and holds a point for the coordinate's flag, the text is
\* accepted too, with the same command and the same points.
C30_SpacedCoordinateParses ==
    (Parsed /\ words(last.text) # <<>>)
    => LET closed == parse(unspace(last.text, FALSE)) IN
       (/\ closed.ok
        /\ closed.cmd.name = Head(words(last.text))
        /\ \E i \in 1..Len(Arguments) :
              /\ SpacedCoordinateAt(Arguments, i)
              /\ contains(closed.cmd.coords, mid1(Arguments[i])))
       => /\ last.ok
          /\ last.cmd = closed.cmd

\* The token is a flag of the -coord_ family.
CoordinateFlag(t) == Len(t) >= 2 /\ t[1] = "-" /\ t[2] = "coord_"

\* The command of the step came out of a parse that succeeded.
ParsedOk ==
    \/ Parsed /\ last.ok
    \/ last.kind \in {"done", "open", "exhaust"}

\* C31: in a command that parsed, every key of coords begins with coord_
\* and no key of args does; each flag of the text is a key of coords when
\* it begins with -coord_ and a key of args when it does not, whatever
\* its value looks like; and a text in which a -coord_ flag is followed by
\* a value that is no coordinate does not parse.
C31_CoordsByPrefix ==
    /\ ParsedOk
       => /\ \A k \in DOMAIN last.cmd.coords : k # <<>> /\ Head(k) = "coord_"
          /\ \A k \in DOMAIN last.cmd.args : k = <<>> \/ Head(k) # "coord_"
          /\ \A i \in FlagPositions(Arguments) :
                IF CoordinateFlag(Arguments[i])
                THEN mid1(Arguments[i]) \in DOMAIN last.cmd.coords
                ELSE mid1(Arguments[i]) \in DOMAIN last.cmd.args
    /\ (Parsed /\ words(last.text) # <<>>)
       => \A i \in FlagPositions(Arguments) :
             (/\ CoordinateFlag(Arguments[i])
              /\ i + 1 <= Len(Arguments)
              /\ ~parseCoords(Arguments[i + 1]).ok)
             => ~last.ok

\* In create_line -name {1,-2.5} the value is a coordinate by its look
\* and an argument by its flag.
C31_Witness ==
    /\ Parsed
    /\ last.ok
    /\ Len(Arguments) = 2
    /\ ~CoordinateFlag(Arguments[1])
    /\ parseCoords(Arguments[2]).ok
    /\ DOMAIN last.cmd.args = {Tok("name")}
    /\ last.cmd.args[Tok("name")] = Arguments[2]
    /\ last.cmd.coords = EmptyMap

\* The token is a flag outside the -coord_ family.
GenericFlag(t) == Len(t) >= 1 /\ t[1] = "-" /\ ~CoordinateFlag(t)

\* The last place at which the flag of place i stands.
LastAt(a, i) ==
    CHOOSE j \in FlagPositions(a) :
        /\ a[j] = a[i]
        /\ \A k \in FlagPositions(a) : a[k] = a[i] => k <= j

\* C32: a generic flag that the loop reaches takes the token after it for
\* its value, whatever that token looks like: when the text ends there it
\* parses, with that token stored as it is under the flag without its
\* dash; the token after the value is read as a flag again, and is
\* refused as unexpected when it has no dash; and in every text that
\* parses, the value stored for the flag is the token after its last
\* occurrence, unchanged.
C32_GenericFlagTakesNextToken ==
    (Parsed /\ words(last.text) # <<>>)
    => LET a == Arguments IN
       \A i \in FlagPositions(a) :
          (GenericFlag(a[i]) /\ i + 1 <= Len(a) /\ PairsFine(a, i))
          => /\ i + 1 = Len(a)
                => /\ last.ok
                   /\ contains(last.cmd.args, mid1(a[i]))
                   /\ last.cmd.args[mid1(a[i])] = a[i + 1]
             /\ (i + 2 <= Len(a) /\ ~startsWithDash(a[i + 2]))
                => /\ ~last.ok
                   /\ last.msg = Msg("Unexpected token '%1'. Flags should start with '-'.",
                                     <<a[i + 2]>>)
             /\ last.ok
                => /\ contains(last.cmd.args, mid1(a[i]))
                   /\ last.cmd.args[mid1(a[i])] = a[LastAt(a, i) + 1]

\* In create_line -name -coord_1 the coordinate flag was taken for the
\* name.
C32_Witness ==
    /\ Parsed
    /\ words(last.text) = <<Tok("create_line"), Flag("name"), CoordFlag("1")>>
    /\ last.ok
    /\ last.cmd.args[Tok("name")] = CoordFlag("1")
    /\ last.cmd.coords = EmptyMap

\* Some flag stands at two places of the pairs.
RepeatedFlag(a) ==
    \E i, j \in FlagPositions(a) : i < j /\ a[i] = a[j]

\* C38: a text whose pairs are in order and in which a flag, generic or
\* coordinate, occurs more than once parses; the command holds one entry
\* for each distinct flag, and the entry of a flag holds the value that
\* follows its last occurrence.
C38_RepeatedFlagLastWins ==
    (/\ Parsed
     /\ words(last.text) # <<>>
     /\ Len(Arguments) % 2 = 0
     /\ PairsFine(Arguments, Len(Arguments) + 1)
     /\ RepeatedFlag(Arguments))
    => LET a == Arguments IN
       /\ last.ok
       /\ Cardinality(DOMAIN last.cmd.args) + Cardinality(DOMAIN last.cmd.coords)
             = Cardinality({a[i] : i \in FlagPositions(a)})
       /\ \A i \in FlagPositions(a) :
             IF CoordinateFlag(a[i])
             THEN /\ contains(last.cmd.coords, mid1(a[i]))
                  /\ last.cmd.coords[mid1(a[i])] = parseCoords(a[LastAt(a, i) + 1]).pt
             ELSE /\ contains(last.cmd.args, mid1(a[i]))
                  /\ last.cmd.args[mid1(a[i])] = a[LastAt(a, i) + 1]

\* create_line -name A -name create_line parsed with the second name, and
\* a coordinate flag given two different points holds the second.
C38_Witness ==
    /\ Parsed
    /\ last.ok
    /\ Len(Arguments) = 4
    /\ RepeatedFlag(Arguments)
    /\ Arguments[2] # Arguments[4]
    /\ \/ /\ Arguments[1] = Flag("name")
          /\ last.cmd.args[Tok("name")] = Arguments[4]
          /\ Cardinality(DOMAIN last.cmd.args) = 1
       \/ /\ Arguments[1] = CoordFlag("1")
          /\ last.cmd.coords[CoordKey("1")] = parseCoords(Arguments[4]).pt
          /\ parseCoords(Arguments[2]).pt # parseCoords(Arguments[4]).pt

---------------------------------------------------------------------------
(* Properties of the registered shapes *)

\* C33: a create_line with a new name and two endpoints succeeds whatever
\* the endpoints are, coincident ones included, and registers the line on
\* them; the centre of the registered line is the midpoint of the
\* endpoints, (2.5, 1.0) for (0,0) and (5,2).
C33_LineCenterIsMidpoint ==
    (Dispatched("create_line") /\ NamesNewObject(last.cmd, last.pre.repo)
     /\ HasCoords(last.cmd, 2))
    => LET name == trimmed(last.cmd.args[Tok("name")]) IN
       /\ last.ok
       /\ DOMAIN repo = DOMAIN last.pre.repo \cup {name}
       /\ repo[name].kind = "line"
       /\ repo[name].m_pts = <<Vertex(1), Vertex(2)>>
       /\ LET c == LineShapeCenter(repo[name]) IN
          /\ 2 * c.x = (Vertex(1)[1] + Vertex(2)[1]) * c.den
          /\ 2 * c.y = (Vertex(1)[2] + Vertex(2)[2]) * c.den
          /\ (Vertex(1) = <<0, 0>> /\ Vertex(2) = <<5 * Scale, 2 * Scale>>)
             => /\ 10 * c.x = 25 * Scale * c.den
                /\ c.y = 1 * Scale * c.den

\* The line from (0,0) to (5,2) is registered.
C33_Witness ==
    /\ Dispatched("create_line")
    /\ last.ok
    /\ HasCoords(last.cmd, 2)
    /\ Vertex(1) = <<0, 0>>
    /\ Vertex(2) = <<5 * Scale, 2 * Scale>>
    /\ trimmed(last.cmd.args[Tok("name")]) \in DOMAIN repo

\* C34: the centre of a registered triangle is the centroid of its
\* vertices, (1.0, 4/3) for (0,0), (3,0), (0,4), and is the same for the
\* triangle built on the same vertices in any other order.
C34_TriangleCenterIsCentroid ==
    (Dispatched("create_triangle") /\ last.ok)
    => LET name == trimmed(last.cmd.args[Tok("name")])
           c == TriangleShapeCenter(repo[name])
       IN
       /\ repo[name].kind = "triangle"
       /\ 3 * c.x = (Vertex(1)[1] + Vertex(2)[1] + Vertex(3)[1]) * c.den
       /\ 3 * c.y = (Vertex(1)[2] + Vertex(2)[2] + Vertex(3)[2]) * c.den
       /\ {Vertex(1), Vertex(2), Vertex(3)}
             = {<<0, 0>>, <<3 * Scale, 0>>, <<0, 4 * Scale>>}
          => /\ c.x = 1 * Scale * c.den
             /\ 3 * c.y = 4 * Scale * c.den
       /\ \A f \in Orders3 :
             LET d == TriangleShapeCenter(
                          TriangleShape(name, Vertex(f[1]), Vertex(f[2]), Vertex(f[3])))
             IN  c.x * d.den = d.x * c.den /\ c.y * d.den = d.y * c.den

\* The triangle (0,4), (0,0), (3,0) is registered.
C34_Witness ==
    /\ Dispatched("create_triangle")
    /\ last.ok
    /\ Vertex(1) = <<0, 4 * Scale>>
    /\ Vertex(2) = <<0, 0>>
    /\ Vertex(3) = <<3 * Scale, 0>>
    /\ trimmed(last.cmd.args[Tok("name")]) \in DOMAIN repo

\* The bounding box of the points, from its lower left corner round.
BoxOf(points) ==
    <<<<minOf(points, 1), minOf(points, 2)>>, <<maxOf(points, 1), minOf(points, 2)>>,
      <<maxOf(points, 1), maxOf(points, 2)>>, <<minOf(points, 1), maxOf(points, 2)>>>>

\* C35: the polygon of a rectangle or a square registered from four
\* corners is the axis-aligned bounding box of the four points, not the
\* points in the order given.
C35_FourCornerPolygonIsBox ==
    (/\ Dispatched("create_rectangle") \/ Dispatched("create_square")
     /\ last.ok
     /\ HasCoords(last.cmd, 4))
    => repo[trimmed(last.cmd.args[Tok("name")])].polygon = BoxOf(Vertices)

\* The part of C35 about create_rectangle.
C35_RectanglePolygonIsBox ==
    (Dispatched("create_rectangle") /\ last.ok /\ HasCoords(last.cmd, 4))
    => repo[trimmed(last.cmd.args[Tok("name")])].polygon = BoxOf(Vertices)

\* C36: the scene holds as many shape items as the registry has entries,
\* and each item is the registered shape of its name; a create_* command
\* that succeeds adds one to each, one that fails adds to neither.
C36_SceneMatchesRegistry ==
    /\ Len(scene.items) = Cardinality(DOMAIN repo)
    /\ \A i \in 1..Len(scene.items) :
          /\ scene.items[i].name \in DOMAIN repo
          /\ repo[scene.items[i].name] = scene.items[i]
    /\ DispatchedCreate
       => LET d == IF last.ok THEN 1 ELSE 0 IN
          /\ Len(scene.items) = Len(last.pre.scene.items) + d
          /\ Cardinality(DOMAIN repo) = Cardinality(DOMAIN last.pre.repo) + d

\* A create_* command failed with two shapes registered and drawn.
C36_Witness ==
    /\ DispatchedCreate
    /\ ~last.ok
    /\ Len(scene.items) = 2
    /\ Cardinality(DOMAIN repo) = 2
    /\ last.pre.repo = repo

---------------------------------------------------------------------------
(* Properties of the script report *)

\* The entry of the log is a line that succeeded.
IsSucceeded(e) == e.ok

\* C37: when a script run from a line of another script returns, the
\* outer run has counted that line once: as a success when no line of the
\* nested script failed and as a failure otherwise, whatever the nested
\* counts were; and what the nested script registered is in the registry
\* either way.
C37_NestedScriptCountsOnce ==
    (Returned /\ last.ctx = "script")
    => /\ stack # <<>>
       /\ LET g == stack[Len(stack)] IN
          /\ g.log # <<>>
          /\ g.log[Len(g.log)].text = last.text
          /\ g.log[Len(g.log)].ok = (\A k \in 1..Len(last.log) : last.log[k].ok)
          /\ g.log[Len(g.log)].post = repo
          /\ g.successCount = Len(SelectSeq(g.log, IsSucceeded))
          /\ g.failureCount = Len(SelectSeq(g.log, IsFailed))
          /\ g.failureCount = Len(g.msg)
       /\ Kept(last.pre.repo, repo)
       /\ \A k \in 1..Len(last.log) : Kept(last.log[k].post, repo)

\* A nested script registered B and then failed on its last line; the
\* outer script counts one failure and B is registered.
C37_Witness ==
    /\ Returned
    /\ last.ctx = "script"
    /\ stack # <<>>
    /\ Len(last.log) = 2
    /\ last.log[1].ok
    /\ ~last.log[2].ok
    /\ NameB \in DOMAIN repo \ DOMAIN last.pre.repo
    /\ stack[Len(stack)].failureCount = 1
    /\ stack[Len(stack)].successCount = 0

---------------------------------------------------------------------------
(* Properties of the two modes of create_rectangle and create_square *)

\* The command with no coordinates but -coord_1 and -coord_2.
OnDiagonalOnly(cmd) ==
    [cmd EXCEPT !.coords = [k \in {CoordKey("1"), CoordKey("2")} |-> cmd.coords[k]]]

\* C39: a create_rectangle or create_square that carries -coord_1 and
\* -coord_2 and one of -coord_3 and -coord_4 is answered as the same
\* command with -coord_1 and -coord_2 alone: same result, same message,
\* same registry and scene; with a new name the message is one of the
\* diagonal mode, and what is registered is the shape on the diagonal.
C39_ExtraCoordinateIgnored ==
    (/\ Dispatched("create_rectangle") \/ Dispatched("create_square")
     /\ HasCoords(last.cmd, 2)
     /\ contains(last.cmd.coords, CoordKey("3")) # contains(last.cmd.coords, CoordKey("4")))
    => /\ execute(OnDiagonalOnly(last.cmd), last.pre) = Result(last.ok, last.msg, repo, scene)
       /\ NamesNewObject(last.cmd, last.pre.repo)
          => LET name == trimmed(last.cmd.args[Tok("name")]) IN
             /\ last.msg \in DiagonalMessages(name)
             /\ last.ok
                => repo[name] = IF last.cmd.name = Tok("create_rectangle")
                                THEN RectangleShapeDiagonal(name, Vertex(1), Vertex(2))
                                ELSE SquareShapeDiagonal(name, Vertex(1), Vertex(2))

\* A rectangle was created on the diagonal of a command that also carried
\* -coord_4.
C39_Witness ==
    /\ Dispatched("create_rectangle")
    /\ HasCoords(last.cmd, 2)
    /\ contains(last.cmd.coords, CoordKey("4"))
    /\ ~contains(last.cmd.coords, CoordKey("3"))
    /\ last.ok
    /\ last.msg = Msg("Rectangle '%1' created from diagonal points.", <<NameA>>)

---------------------------------------------------------------------------
(* Properties of the failure entries *)

\* C40: the report of a script is the summary of the counts followed by
\* the failure entries, one for each line that failed; the number an
\* entry carries is the place of its line in the file, blank lines
\* counted, and the numbers of the entries increase.
C40_FailureEntriesByFileLine ==
    Returned
    => LET lines == files[last.path] IN
       /\ last.msg.text = "Script executed: %1 successes, %2 failures.%3"
       /\ last.msg.args[1] + Len(FailureEntries) = Len(last.log)
       /\ last.msg.args[2] = Len(FailureEntries)
       /\ Len(FailureEntries) = Len(FailedLines)
       /\ \A k \in 1..Len(FailureEntries) :
             LET n == FailureEntries[k].args[1] IN
             /\ FailureEntries[k].text \in {"\nLine %1 parse error: %2", "\nLine %1 failed: %2"}
             /\ n \in 1..Len(lines)
             /\ ~IsBlank(lines[n])
             /\ trimmed(lines[n]) = FailedLines[k].text
             /\ last.log[Cardinality(NonBlank(lines, n))] = FailedLines[k]
             /\ k > 1 => FailureEntries[k - 1].args[1] < n

\* A script whose first line is blank and whose second and third lines
\* failed in a handler: the entries carry 2 and 3.
C40_Witness ==
    /\ Returned
    /\ Len(files[last.path]) = 3
    /\ IsBlank(files[last.path][1])
    /\ Len(FailureEntries) = 2
    /\ FailureEntries[1].text = "\nLine %1 failed: %2"
    /\ FailureEntries[1].args[1] = 2
    /\ FailureEntries[2].args[1] = 3

===========================================================================
